---- MODULE Spec2Model ----
(***************************************************************************)
(* Model of pytopo:                                                        *)
(*   - pytopo/sweep2/core.py : Bag (a stack of BagSections) and run()      *)
(*   - pytopo/sweep/base.py  : Sweep, Measure, Nest, Chain sweep objects   *)
(*   - pytopo/sweep/measurement.py : SweepMeasurement.register_sweep       *)
(*   - pytopo/sweep/decorators.py : hardsweep                              *)
(*   - pytopo/rf/alazar : acquisition controllers and SoftSweepCtl         *)
(*   - pytopo/parameters.py : ConversionParameter                          *)
(*   - pytopo/mdac/Continuity_checker.py : the MDAC continuity check       *)
(*   - stationq/experiment/measurement.py : BaseMeasurement                *)
(*   - pytopo/field_optimization/movement.py : FieldOptimizationProblem    *)
(* The specifications share the variables: SpecBag drives the Bag          *)
(* methods, SpecRun executes run(), SpecBuild constructs sweep objects and *)
(* registers them, SpecIter iterates a constructed sweep object, SpecHard  *)
(* iterates a hardsweep, SpecAcq runs acquisitions on a controller,        *)
(* SpecConv sets and gets a ConversionParameter, SpecMdac executes the     *)
(* continuity check command by command, SpecMeas executes                  *)
(* BaseMeasurement.run and SpecOpt (SpecOptFair with fairness) the         *)
(* exhaustive search of optimize_at_fixed_magnitude.                       *)
(***************************************************************************)
EXTENDS Integers, Sequences, FiniteSets, TLC

VARIABLES
    bag,        \* the Bag: a sequence of sections, bottom first, top last
    op,         \* the last Bag method called: [name, key, val]
    ret,        \* what that call returned or raised
    sweeps,     \* run(): the list of sweep2.Sweep objects [param_name, values]
    frames,     \* run(): one loop index per active invocation of run
    log,        \* run(): calls of prepare/set/measure_v/save_data so far
    counter,    \* run(): the itertools.count the measure function draws from
    initBag,    \* run(): the bag as it was when run() was called
    rpc,        \* run(): "idle", "running" or "done"
    stack,      \* sweep objects constructed so far (last is the newest)
    ctorErr,    \* the last constructor call: [ctor, args, err, msg]
    phase,      \* "build", "iter", "done" (StopIteration seen), "registered"
    gen,        \* generator state of the sweep object being iterated
    params,     \* instrument state: value of every settable parameter
    results,    \* dictionaries yielded by the iteration so far
    calls,      \* calls of set and get functions made so far
    regs,       \* parameters registered by register_custom_parameter
    ctl,        \* acquisition controller: its attributes and parameters
    data,       \* acquisition controller: self.data (None or an array)
    acqLog,     \* one entry per buffer the digitizer has delivered
    acqRet,     \* what the last controller method returned or raised
    awg,        \* the trigger sequence programmed on the AWG (<<>> if none)
    src,        \* value of the source parameter of a ConversionParameter
    conv,       \* the ConversionParameter: its get_conv and set_conv
    convRet,    \* the last get or set of the ConversionParameter
    mdac,       \* continuity check: relays and voltages of the MDAC and SMU
    mprog,      \* continuity check: the instrument commands of the program
    mpc,        \* continuity check: number of commands executed so far
    rdict,      \* continuity check: the resistance dictionary R
    folder,     \* BaseMeasurement: the data folder (exists, file names)
    meas,       \* BaseMeasurement: the run() in progress
    opt         \* field optimization: the exhaustive search in progress

bagVars == <<bag, op, ret>>
runVars == <<sweeps, frames, log, counter, initBag, rpc>>
sweepVars == <<stack, ctorErr, phase, gen, params, results, calls, regs>>
acqVars == <<ctl, data, acqLog, acqRet, awg>>
convVars == <<src, conv, convRet>>
mdacVars == <<mdac, mprog, mpc, rdict>>
oldVars == <<bagVars, runVars, sweepVars, acqVars, convVars>>
measVars == <<folder, meas>>
optVars == <<opt>>
restVars == <<mdacVars, measVars, optVars>>
vars == <<bag, op, ret, sweeps, frames, log, counter, initBag, rpc,
          stack, ctorErr, phase, gen, params, results, calls, regs,
          ctl, data, acqLog, acqRet, awg, src, conv, convRet,
          mdac, mprog, mpc, rdict, folder, meas, opt>>

(***************************************************************************)
(* Bounds                                                                  *)
(***************************************************************************)
MaxSections == 3    \* sections a bag holds in SpecBag
MaxSweeps == 3      \* sweeps handed to run()
MaxVals == 2        \* values of one sweep of run()
MaxLen == 2         \* set values of one sweep object
MaxObjs == 4        \* Sweep and Measure objects created while building
MaxDepth == 4       \* nesting depth of a constructed sweep object
MaxNest == 2        \* sweeps in front of the last object of an iterated Nest
MaxMembers == 2     \* members of an iterated Chain

Keys == {"x", "y"}
Vals == {1, 2}

(***************************************************************************)
(* sweep2/core.py : BagSection and Bag                                     *)
(***************************************************************************)
\* BagSection(): an empty dictionary
BagSection == [k \in {} |-> 0]

\* bag_section[key] = value
SetItem(section, key, value) ==
    [k \in (DOMAIN section) \cup {key} |-> IF k = key THEN value ELSE section[k]]

\* del bag_section[key]
DelItem(section, key) ==
    [k \in (DOMAIN section) \ {key} |-> section[k]]

NoOp == [name |-> "none", key |-> "", val |-> 0]
Returned(kind, val, key, sec) ==
    [kind |-> kind, val |-> val, key |-> key, msg |-> <<>>, sec |-> sec]
NoRet == Returned("none", 0, "", BagSection)

\* KeyError(f'{key} not found')
KeyError(key) ==
    [kind |-> "KeyError", val |-> 0, key |-> key,
     msg |-> <<key, " not found">>, sec |-> BagSection]

\* Bag.val_for: walk self[::-1], return the first value found, else KeyError
RECURSIVE ValForFrom(_, _, _)
ValForFrom(b, key, i) ==
    IF i = 0
    THEN KeyError(key)
    ELSE IF key \in DOMAIN b[i]
         THEN Returned("value", b[i][key], key, BagSection)
         ELSE ValForFrom(b, key, i - 1)

\* a val_for that walks the stack bottom-up
RECURSIVE ValForBottomUp(_, _, _)
ValForBottomUp(b, key, i) ==
    IF i > Len(b)
    THEN KeyError(key)
    ELSE IF key \in DOMAIN b[i]
         THEN Returned("value", b[i][key], key, BagSection)
         ELSE ValForBottomUp(b, key, i + 1)

ValForMutant(b, key) == ValForBottomUp(b, key, 1)

ValFor(b, key) == ValForFrom(b, key, Len(b))

\* an add that writes into the bottom section
BagAddMutant(b, key, value) == [b EXCEPT ![1] = SetItem(b[1], key, value)]

\* Bag.add: self[-1][key] = value  (caller guarantees Len(b) > 0)
BagAdd(b, key, value) == [b EXCEPT ![Len(b)] = SetItem(b[Len(b)], key, value)]

\* Bag.flatten: copy every section, bottom first, into one BagSection
RECURSIVE FlattenFrom(_, _, _)
FlattenFrom(b, i, flattened) ==
    IF i > Len(b)
    THEN flattened
    ELSE FlattenFrom(b, i + 1,
            [k \in (DOMAIN flattened) \cup (DOMAIN b[i]) |->
                IF k \in DOMAIN b[i] THEN b[i][k] ELSE flattened[k]])

\* a flatten that keeps the first value it meets for a key
RECURSIVE FlattenKeepFirst(_, _, _)
FlattenKeepFirst(b, i, flattened) ==
    IF i > Len(b)
    THEN flattened
    ELSE FlattenKeepFirst(b, i + 1,
            [k \in (DOMAIN flattened) \cup (DOMAIN b[i]) |->
                IF k \in DOMAIN flattened THEN flattened[k] ELSE b[i][k]])

FlattenMutant(b) == FlattenKeepFirst(b, 1, BagSection)

Flatten(b) == FlattenFrom(b, 1, BagSection)

(***************************************************************************)
(* SpecBag: the Bag methods called in any order                            *)
(***************************************************************************)
\* bag.append(BagSection())
AppendSection ==
    /\ Len(bag) < MaxSections
    /\ bag' = Append(bag, BagSection)
    /\ op' = [name |-> "append", key |-> "", val |-> 0]
    /\ ret' = NoRet

\* bag.pop()
PopSection ==
    /\ op' = [name |-> "pop", key |-> "", val |-> 0]
    /\ IF Len(bag) = 0
       THEN /\ bag' = bag
            /\ ret' = Returned("IndexError", 0, "", BagSection)
       ELSE /\ bag' = SubSeq(bag, 1, Len(bag) - 1)
            /\ ret' = Returned("section", 0, "", bag[Len(bag)])

\* bag.add(key, value)
CallAdd ==
    \E key \in Keys, value \in Vals :
        /\ op' = [name |-> "add", key |-> key, val |-> value]
        /\ IF Len(bag) = 0
           THEN /\ bag' = bag
                /\ ret' = Returned("IndexError", 0, "", BagSection)
           ELSE /\ bag' = BagAdd(bag, key, value)
                /\ ret' = NoRet

\* bag.val_for(key)
CallValFor ==
    \E key \in Keys :
        /\ op' = [name |-> "val_for", key |-> key, val |-> 0]
        /\ ret' = ValFor(bag, key)
        /\ bag' = bag

\* bag.flatten()
CallFlatten ==
    /\ op' = [name |-> "flatten", key |-> "", val |-> 0]
    /\ ret' = Returned("section", 0, "", Flatten(bag))
    /\ bag' = bag

\* bag.remove_for(key): class Bag(list) defines val_for, add and flatten only,
\* and list has no remove_for, so the attribute lookup raises AttributeError
CallRemoveFor ==
    \E key \in Keys :
        /\ op' = [name |-> "remove_for", key |-> key, val |-> 0]
        /\ ret' = Returned("AttributeError", 0, key, BagSection)
        /\ bag' = bag

RunIdle ==
    /\ sweeps = <<>> /\ frames = <<>> /\ log = <<>> /\ counter = 0
    /\ initBag = <<>> /\ rpc = "idle"

SweepIdle ==
    /\ stack = <<>> /\ ctorErr = <<>> /\ phase = "build" /\ gen = <<>>
    /\ params = <<>> /\ results = <<>> /\ calls = <<>> /\ regs = <<>>

AcqIdle ==
    /\ ctl = <<>> /\ data = <<>> /\ acqLog = <<>> /\ acqRet = <<>>
    /\ awg = <<>>

ConvIdle ==
    /\ src = 0 /\ conv = <<>> /\ convRet = <<>>

MdacIdle ==
    /\ mdac = <<>> /\ mprog = <<>> /\ mpc = 0 /\ rdict = <<>>

MeasIdle ==
    /\ folder = <<>> /\ meas = <<>>

OptIdle == opt = <<>>

RestIdle == MdacIdle /\ MeasIdle /\ OptIdle

InitBag ==
    /\ bag = <<>> /\ op = NoOp /\ ret = NoRet
    /\ RunIdle /\ SweepIdle /\ AcqIdle /\ ConvIdle /\ RestIdle

NextBag ==
    \/ AppendSection /\ UNCHANGED <<runVars, sweepVars, acqVars, convVars, restVars>>
    \/ PopSection /\ UNCHANGED <<runVars, sweepVars, acqVars, convVars, restVars>>
    \/ CallAdd /\ UNCHANGED <<runVars, sweepVars, acqVars, convVars, restVars>>
    \/ CallValFor /\ UNCHANGED <<runVars, sweepVars, acqVars, convVars, restVars>>
    \/ CallFlatten /\ UNCHANGED <<runVars, sweepVars, acqVars, convVars, restVars>>
    \/ CallRemoveFor /\ UNCHANGED <<runVars, sweepVars, acqVars, convVars, restVars>>

SpecBag == InitBag /\ [][NextBag]_vars

(***************************************************************************)
(* Properties of the Bag                                                   *)
(***************************************************************************)
\* indices of the sections of b that contain key
Holders(b, key) == {i \in 1..Len(b) : key \in DOMAIN b[i]}
TopHolder(b, key) == CHOOSE i \in Holders(b, key) : \A j \in Holders(b, key) : j <= i

\* C4: remove_for(key), called on a bag in which some section contains key,
\* deletes key from the topmost section that contains it and leaves every
\* other section unchanged.
C4_RemoveForDeletesTopmost ==
    [][(op'.name = "remove_for" /\ Holders(bag, op'.key) # {})
        => bag' = [bag EXCEPT ![TopHolder(bag, op'.key)] =
                        DelItem(bag[TopHolder(bag, op'.key)], op'.key)]]_vars

\* C5: val_for(key) returns the value of key in the topmost section that
\* contains key, and raises KeyError '<key> not found' exactly when no
\* section contains key.
C5_ValForTopmost ==
    op.name = "val_for" =>
        IF Holders(bag, op.key) = {}
        THEN ret.kind = "KeyError" /\ ret.msg = <<op.key, " not found">>
        ELSE ret.kind = "value" /\ ret.val = bag[TopHolder(bag, op.key)][op.key]

\* val_for has answered for a key that a lower section holds with another value
C5_Witness ==
    /\ op.name = "val_for" /\ ret.kind = "value"
    /\ Cardinality(Holders(bag, op.key)) >= 2
    /\ \E i \in Holders(bag, op.key) : bag[i][op.key] # ret.val

\* C6: add(key, value) writes only into the top section: the sections below
\* the top and the number of sections are as before the add.
C6_AddTopOnly ==
    [][op'.name = "add" =>
        /\ Len(bag') = Len(bag)
        /\ \A i \in 1..(Len(bag) - 1) : bag'[i] = bag[i]
        /\ Len(bag) > 0 => /\ op'.key \in DOMAIN bag'[Len(bag)]
                           /\ bag'[Len(bag)][op'.key] = op'.val]_vars

\* a key was added on top of a lower section that does not hold it
C6_Witness ==
    /\ op.name = "add" /\ ret.kind = "none" /\ Len(bag) >= 2
    /\ DOMAIN bag[1] # {} /\ op.key \notin DOMAIN bag[1]
    /\ op.key \in DOMAIN bag[Len(bag)]

\* C7: flatten() returns one section whose keys are the keys present in some
\* section, each with the value val_for returns for it; the bag is unchanged.
C7_FlattenAgreesWithValFor ==
    [][op'.name = "flatten" =>
        /\ bag' = bag
        /\ ret'.kind = "section"
        /\ DOMAIN ret'.sec = UNION {DOMAIN bag[i] : i \in 1..Len(bag)}
        /\ \A k \in DOMAIN ret'.sec :
              /\ ValFor(bag, k).kind = "value"
              /\ ret'.sec[k] = ValFor(bag, k).val]_vars

\* a bag with a key shadowed by a higher section has been flattened
C7_Witness ==
    /\ op.name = "flatten"
    /\ \E k \in Keys : /\ Cardinality(Holders(bag, k)) >= 2
                       /\ \E i \in Holders(bag, k) : bag[i][k] # ret.sec[k]

(***************************************************************************)
(* sweep2/core.py : run(), with the set, measure and save functions of     *)
(* tests/use_cases/test_doND.py                                            *)
(***************************************************************************)
Names == <<"x", "y", "z", "w">>
MeasureKey == "m"

\* the values of the k-th sweep: len distinct numbers
ValuesOf(k, len) == [j \in 1..len |-> 10 * k + j]

\* Sweep(param_name, values, set_function)
Sweep2(k, len) == [param_name |-> Names[k], values |-> ValuesOf(k, len)]

\* bags run() is started with: Bag() or a bag that already holds a section
InitBags == {<<>>, <<SetItem(BagSection, "a", 0)>>}

Event(f, k, val, b) == [f |-> f, k |-> k, val |-> val, bag |-> b]

\* list.pop() on the bag
Pop(b) == SubSeq(b, 1, Len(b) - 1)

InitRun ==
    /\ bag \in InitBags
    /\ initBag = bag
    /\ \E n \in 1..MaxSweeps : \E lens \in [1..n -> 0..MaxVals] :
          sweeps = [k \in 1..n |-> Sweep2(k, lens[k])]
    /\ frames = <<>> /\ log = <<>> /\ counter = 0 /\ rpc = "idle"
    /\ op = NoOp /\ ret = NoRet
    /\ SweepIdle /\ AcqIdle /\ ConvIdle /\ RestIdle

\* run(sweeps, bag, measure_v, save_data) is called with len(sweeps) >= 1:
\* the else branch is entered and sweep.prepare_function(bag) runs
RunCall ==
    /\ rpc = "idle"
    /\ rpc' = "running"
    /\ frames' = <<0>>
    /\ log' = Append(log, Event("prepare", 1, 0, bag))
    /\ UNCHANGED <<bag, counter>>

\* a loop body that writes the value into the section already on top
RunLoopBodyMutant ==
    /\ rpc = "running"
    /\ Len(frames) <= Len(sweeps)
    /\ frames[Len(frames)] < Len(sweeps[Len(frames)].values)
    /\ LET d == Len(frames)
           sweep == sweeps[d]
           param_value == sweep.values[frames[d] + 1]
           b1 == IF Len(bag) = 0 THEN Append(bag, BagSection) ELSE bag
           b2 == BagAdd(b1, sweep.param_name, param_value)
           setEv == Event("set", d, ValFor(b2, sweep.param_name).val, b2)
           prepEv == IF d + 1 <= Len(sweeps)
                     THEN <<Event("prepare", d + 1, 0, b2)>> ELSE <<>>
       IN /\ bag' = b2
          /\ frames' = Append([frames EXCEPT ![d] = @ + 1], 0)
          /\ log' = log \o <<setEv>> \o prepEv
    /\ UNCHANGED <<counter, rpc>>

\* one pass of `for param_value in sweep.values` up to the recursive call:
\* bag.append(BagSection()); bag.add(name, value); bag = set_function(bag);
\* run(other_sweeps, ...) is entered (and runs its prepare_function if it
\* has a sweep left).  set_function reads its value with val_for, records
\* it and returns the bag.
RunLoopBody ==
    /\ rpc = "running"
    /\ Len(frames) <= Len(sweeps)
    /\ frames[Len(frames)] < Len(sweeps[Len(frames)].values)
    /\ LET d == Len(frames)
           sweep == sweeps[d]
           param_value == sweep.values[frames[d] + 1]
           b1 == Append(bag, BagSection)
           b2 == BagAdd(b1, sweep.param_name, param_value)
           setEv == Event("set", d, ValFor(b2, sweep.param_name).val, b2)
           prepEv == IF d + 1 <= Len(sweeps)
                     THEN <<Event("prepare", d + 1, 0, b2)>> ELSE <<>>
       IN /\ bag' = b2
          /\ frames' = Append([frames EXCEPT ![d] = @ + 1], 0)
          /\ log' = log \o <<setEv>> \o prepEv
    /\ UNCHANGED <<counter, rpc>>

\* run([], bag, ...): bag = measure_v(bag); save_data(bag); return, and the
\* caller executes bag.pop().  measure_v adds next(counter) under the
\* measured key and returns the bag; save_data records bag.copy().
RunBase ==
    /\ rpc = "running"
    /\ Len(frames) = Len(sweeps) + 1
    /\ LET b1 == BagAdd(bag, MeasureKey, counter)
       IN /\ log' = log \o <<Event("measure", 0, counter, b1),
                             Event("save", 0, 0, b1)>>
          /\ bag' = Pop(b1)
    /\ counter' = counter + 1
    /\ frames' = Pop(frames)
    /\ UNCHANGED rpc

\* a return after which the enclosing invocation leaves its section on
\* the bag
RunLoopEndMutant ==
    /\ rpc = "running"
    /\ Len(frames) <= Len(sweeps)
    /\ frames[Len(frames)] = Len(sweeps[Len(frames)].values)
    /\ frames' = Pop(frames)
    /\ bag' = bag
    /\ rpc' = IF Len(frames) > 1 THEN rpc ELSE "done"
    /\ UNCHANGED <<log, counter>>

\* the for loop of an invocation is exhausted: run returns; an enclosing
\* invocation then executes its bag.pop()
RunLoopEnd ==
    /\ rpc = "running"
    /\ Len(frames) <= Len(sweeps)
    /\ frames[Len(frames)] = Len(sweeps[Len(frames)].values)
    /\ frames' = Pop(frames)
    /\ IF Len(frames) > 1
       THEN bag' = Pop(bag) /\ rpc' = rpc
       ELSE bag' = bag /\ rpc' = "done"
    /\ UNCHANGED <<log, counter>>

NextRun ==
    \/ RunCall /\ UNCHANGED <<sweeps, initBag, op, ret, sweepVars, acqVars, convVars, restVars>>
    \/ RunLoopBody /\ UNCHANGED <<sweeps, initBag, op, ret, sweepVars, acqVars, convVars, restVars>>
    \/ RunBase /\ UNCHANGED <<sweeps, initBag, op, ret, sweepVars, acqVars, convVars, restVars>>
    \/ RunLoopEnd /\ UNCHANGED <<sweeps, initBag, op, ret, sweepVars, acqVars, convVars, restVars>>

SpecRun == InitRun /\ [][NextRun]_vars

(***************************************************************************)
(* Properties of run()                                                     *)
(***************************************************************************)
\* all sequences <<v1, .., vn>> with vi taken from lists[i], first index
\* varying slowest (the order of nested for loops and of itertools.product)
RECURSIVE Product(_)
RECURSIVE PrependEach(_, _, _)
PrependEach(vals, i, tails) ==
    IF i > Len(vals) THEN <<>>
    ELSE [j \in 1..Len(tails) |-> <<vals[i]>> \o tails[j]]
         \o PrependEach(vals, i + 1, tails)
Product(lists) ==
    IF lists = <<>> THEN << <<>> >>
    ELSE PrependEach(Head(lists), 1, Product(Tail(lists)))

IsPrefix(s, t) == Len(s) <= Len(t) /\ s = SubSeq(t, 1, Len(s))

ValueLists(k) == [j \in 1..k |-> sweeps[j].values]
SetEvents(k) == SelectSeq(log, LAMBDA e : e.f = "set" /\ e.k = k)
MeasureSaveEvents == SelectSeq(log, LAMBDA e : e.f \in {"measure", "save"})
SaveEvents == SelectSeq(log, LAMBDA e : e.f = "save")

\* the j-th call of sweep k's set function is made for the j-th combination
\* of the values of sweeps 1..k, and every combination is served when done
SetCallsInOrder ==
    \A k \in 1..Len(sweeps) :
        LET evs == SetEvents(k)
            combos == Product(ValueLists(k))
        IN /\ Len(evs) <= Len(combos)
           /\ rpc = "done" => Len(evs) = Len(combos)
           /\ \A j \in 1..Len(evs) :
                 /\ evs[j].val = combos[j][k]
                 /\ \A i \in 1..k :
                       ValFor(evs[j].bag, Names[i]) =
                           Returned("value", combos[j][i], Names[i], BagSection)

\* measure_v and save_data alternate, one pair per combination of all sweeps
MeasureThenSave ==
    LET evs == MeasureSaveEvents
        combos == Product(ValueLists(Len(sweeps)))
    IN /\ Len(evs) <= 2 * Len(combos)
       /\ rpc = "done" => Len(evs) = 2 * Len(combos)
       /\ \A j \in 1..Len(evs) :
             evs[j].f = (IF j % 2 = 1 THEN "measure" ELSE "save")
       /\ \A j \in 1..Len(evs) :
             \A i \in 1..Len(sweeps) :
                 ValFor(evs[j].bag, Names[i]).val = combos[(j + 1) \div 2][i]

\* the bag handed to the j-th save_data: n sections, the k-th with sweep k's
\* value of the j-th combination
SavedBagOneSectionPerSweep ==
    LET evs == SaveEvents
        combos == Product(ValueLists(Len(sweeps)))
    IN \A j \in 1..Len(evs) :
          /\ Len(evs[j].bag) = Len(sweeps)
          /\ \A k \in 1..Len(sweeps) :
                /\ Names[k] \in DOMAIN evs[j].bag[k]
                /\ evs[j].bag[k][Names[k]] = combos[j][k]

\* the same, counted above the sections the bag held when run() was called
SavedBagOneSectionPerSweepAboveInitial ==
    LET evs == SaveEvents
        combos == Product(ValueLists(Len(sweeps)))
        base == Len(initBag)
    IN \A j \in 1..Len(evs) :
          /\ Len(evs[j].bag) = base + Len(sweeps)
          /\ SubSeq(evs[j].bag, 1, base) = initBag
          /\ \A k \in 1..Len(sweeps) :
                /\ Names[k] \in DOMAIN evs[j].bag[base + k]
                /\ evs[j].bag[base + k][Names[k]] = combos[j][k]

ParamTable(names) == [param_specs |-> names, nests |-> <<names>>]

\* param_table.add: the tables side by side (specs and nests concatenated)
RECURSIVE TableAdd(_)
TableAdd(tables) ==
    IF tables = <<>> THEN [param_specs |-> <<>>, nests |-> <<>>]
    ELSE LET rest == TableAdd(Tail(tables))
         IN [param_specs |-> Head(tables).param_specs \o rest.param_specs,
             nests |-> Head(tables).nests \o rest.nests]

\* every nest of a followed by every nest of b, a's nests varying slowest
RECURSIVE CrossNests(_, _, _)
CrossNests(a, i, b) ==
    IF i > Len(a) THEN <<>>
    ELSE [j \in 1..Len(b) |-> a[i] \o b[j]] \o CrossNests(a, i + 1, b)

\* param_table.prod: the tables nested (specs concatenated, nests crossed)
RECURSIVE TableProd(_)
TableProd(tables) ==
    IF tables = <<>> THEN [param_specs |-> <<>>, nests |-> << <<>> >>]
    ELSE LET rest == TableProd(Tail(tables))
         IN [param_specs |-> Head(tables).param_specs \o rest.param_specs,
             nests |-> CrossNests(Head(tables).nests, 1, rest.nests)]

\* ParamTable.resolve_dependencies: in every nest of more than one name the
\* last name depends on the names before it; the result maps each spec name
\* to its depends_on list
RECURSIVE DependsOnFrom(_, _, _)
DependsOnFrom(nests, i, name) ==
    IF i > Len(nests) THEN <<>>
    ELSE LET nest == nests[i]
         IN IF Len(nest) > 1 /\ nest[Len(nest)] = name
            THEN SubSeq(nest, 1, Len(nest) - 1)
            ELSE DependsOnFrom(nests, i + 1, name)

ResolveDependencies(table) ==
    [i \in 1..Len(table.param_specs) |->
        [name |-> table.param_specs[i],
         depends_on |-> DependsOnFrom(table.nests, 1, table.param_specs[i])]]

(***************************************************************************)
(* sweep/base.py : sweep objects and their constructors                    *)
(***************************************************************************)
SweepNames == <<"x", "y", "z", "u", "v", "w">>
MeasureNames == <<"i", "j", "k">>
NoneVal == -1
CallName == "f"

NoObj == [type |-> "None", name |-> "", values |-> <<>>, objs |-> <<>>,
          measurable |-> FALSE, table |-> TableAdd(<<>>)]

\* Sweep(set_function, parameter_table, point_function)
SweepObj(name, values) ==
    [type |-> "Sweep", name |-> name, values |-> values, objs |-> <<>>,
     measurable |-> FALSE, table |-> ParamTable(<<name>>)]

\* Measure(get_function, parameter_table)
MeasureObj(name) ==
    [type |-> "Measure", name |-> name, values |-> <<>>, objs |-> <<>>,
     measurable |-> TRUE, table |-> ParamTable(<<name>>)]

\* _CallSweepObject(call_function, *args): ParamTable([], nests=[[]])
CallObj(name) ==
    [type |-> "Call", name |-> name, values |-> <<>>, objs |-> <<>>,
     measurable |-> FALSE, table |-> [param_specs |-> <<>>, nests |-> << <<>> >>]]

\* BaseSweepObject.has_chain
HasChain(o) == Len(o.table.nests) > 1

Constructed(o) == [err |-> "none", msg |-> "", obj |-> o]
Raised(err, msg) == [err |-> err, msg |-> msg, obj |-> NoObj]

\* a Nest constructor that inspects sweep_objects[1:] instead of [:-1]
NestCtorMutant(sweep_objects) ==
    IF \E i \in 2..Len(sweep_objects) : HasChain(sweep_objects[i])
    THEN Raised("TypeError", "Cannot nest in chained sweep object")
    ELSE IF \E i \in 2..Len(sweep_objects) : sweep_objects[i].measurable
    THEN Raised("TypeError", "In a nest, only the last sweep object may be measurable")
    ELSE Constructed(
            [type |-> "Nest", name |-> "", values |-> <<>>,
             objs |-> sweep_objects,
             measurable |-> sweep_objects[Len(sweep_objects)].measurable,
             table |-> TableProd([i \in 1..Len(sweep_objects) |->
                                    sweep_objects[i].table])])

\* Nest.__init__ (at least one sweep object)
NestCtor(sweep_objects) ==
    IF \E i \in 1..(Len(sweep_objects) - 1) : HasChain(sweep_objects[i])
    THEN Raised("TypeError", "Cannot nest in chained sweep object")
    ELSE IF \E i \in 1..(Len(sweep_objects) - 1) : sweep_objects[i].measurable
    THEN Raised("TypeError", "In a nest, only the last sweep object may be measurable")
    ELSE Constructed(
            [type |-> "Nest", name |-> "", values |-> <<>>,
             objs |-> sweep_objects,
             measurable |-> sweep_objects[Len(sweep_objects)].measurable,
             table |-> TableProd([i \in 1..Len(sweep_objects) |->
                                    sweep_objects[i].table])])

\* Chain.__init__
ChainCtor(sweep_objects) ==
    Constructed(
        [type |-> "Chain", name |-> "", values |-> <<>>,
         objs |-> sweep_objects,
         measurable |-> \E i \in 1..Len(sweep_objects) : sweep_objects[i].measurable,
         table |-> TableAdd([i \in 1..Len(sweep_objects) |->
                                sweep_objects[i].table])])

(***************************************************************************)
(* sweep/base.py : iteration.  A generator state is kept per sweep object: *)
(* Sweep and Measure count the values they have yielded, Chain remembers   *)
(* the member it is in, Nest keeps one level per nested _two_product.      *)
(***************************************************************************)
EmptyRes == [k \in {} |-> 0]

\* an update that leaves result1 as it is
UpdateMutant(result1, result2) == result1

\* result1.update(result2)
Update(result1, result2) ==
    [k \in (DOMAIN result1) \cup (DOMAIN result2) |->
        IF k \in DOMAIN result2 THEN result2[k] ELSE result1[k]]

\* the getter of the test fixtures, pi.get = lambda: f(px(), py(), pz()):
\* a number that determines the value of every settable parameter
RECURSIVE ReadingFrom(_, _)
ReadingFrom(env, n) ==
    IF n = 0 THEN 0
    ELSE (env[SweepNames[n]] + 1) + (MaxLen + 1) * ReadingFrom(env, n - 1)
Reading(env) == ReadingFrom(env, Len(SweepNames))

Call(f, name, val) == [f |-> f, name |-> name, val |-> val]
Step(done, res, g, env, cl) ==
    [done |-> done, res |-> res, g |-> g, env |-> env, calls |-> cl]

RECURSIVE GenInit(_)
RECURSIVE GenNext(_, _, _, _)
RECURSIVE ChainNext(_, _, _, _)
RECURSIVE NestNext(_, _, _, _, _)
RECURSIVE ChainNextMutant(_, _, _, _)

\* BaseSweepObject._start_iter: a fresh generator
GenInit(o) ==
    CASE o.type = "Chain" ->
            [k |-> 1,
             sub |-> IF Len(o.objs) >= 1 THEN GenInit(o.objs[1]) ELSE <<>>]
      [] o.type = "Nest" ->
            [lev |-> [j \in 1..Len(o.objs) |->
                        [g |-> GenInit(o.objs[j]), res |-> EmptyRes, on |-> FALSE]]]
      [] OTHER -> [i |-> 0]

\* a sweep that yields its set value without calling the set function
SweepNextMutant(o, g, env, cl) ==
    IF g.i < Len(o.values)
    THEN Step(FALSE, o.name :> o.values[g.i + 1], [i |-> g.i + 1], env, cl)
    ELSE Step(TRUE, EmptyRes, g, env, cl)

\* Sweep._generator_factory: for set_value in point_function():
\*     yield set_function(set_value)      (sets the parameter, returns {name: value})
SweepNext(o, g, env, cl) ==
    IF g.i < Len(o.values)
    THEN LET set_value == o.values[g.i + 1]
         IN Step(FALSE, o.name :> set_value, [i |-> g.i + 1],
                 [env EXCEPT ![o.name] = set_value],
                 Append(cl, Call("set", o.name, set_value)))
    ELSE Step(TRUE, EmptyRes, g, env, cl)

\* a measurement whose value does not depend on the parameters set
MeasureNextMutant(o, g, env, cl) ==
    IF g.i = 0
    THEN Step(FALSE, o.name :> ReadingFrom(env, 0), [i |-> 1], env,
              Append(cl, Call("get", o.name, ReadingFrom(env, 0))))
    ELSE Step(TRUE, EmptyRes, g, env, cl)

\* Measure._generator_factory: yield get_function()
MeasureNext(o, g, env, cl) ==
    IF g.i = 0
    THEN Step(FALSE, o.name :> Reading(env), [i |-> 1], env,
              Append(cl, Call("get", o.name, Reading(env))))
    ELSE Step(TRUE, EmptyRes, g, env, cl)

\* a call sweep object that yields without calling the function
CallObjNextMutant(o, g, env, cl) ==
    IF g.i = 0
    THEN Step(FALSE, EmptyRes, [i |-> 1], env, cl)
    ELSE Step(TRUE, EmptyRes, g, env, cl)

\* _CallSweepObject._generator_factory: self._caller(); yield {}
\* (the call is logged with the instrument state it sees)
CallObjNext(o, g, env, cl) ==
    IF g.i = 0
    THEN Step(FALSE, EmptyRes, [i |-> 1], env,
              Append(cl, Call("call", o.name, Reading(env))))
    ELSE Step(TRUE, EmptyRes, g, env, cl)

\* a chain that stops when its first member is exhausted
ChainNextMutant(o, g, env, cl) ==
    IF g.k > Len(o.objs)
    THEN Step(TRUE, EmptyRes, g, env, cl)
    ELSE LET r == GenNext(o.objs[g.k], g.sub, env, cl)
         IN IF ~r.done
            THEN Step(FALSE, r.res, [k |-> g.k, sub |-> r.g], r.env, r.calls)
            ELSE Step(TRUE, EmptyRes, [k |-> g.k, sub |-> r.g], r.env, r.calls)

\* Chain._generator_factory: for so in sweep_objects: for result in so: yield result
ChainNext(o, g, env, cl) ==
    IF g.k > Len(o.objs)
    THEN Step(TRUE, EmptyRes, g, env, cl)
    ELSE LET r == GenNext(o.objs[g.k], g.sub, env, cl)
         IN IF ~r.done
            THEN Step(FALSE, r.res, [k |-> g.k, sub |-> r.g], r.env, r.calls)
            ELSE ChainNext(o,
                    [k |-> g.k + 1,
                     sub |-> IF g.k + 1 <= Len(o.objs)
                             THEN GenInit(o.objs[g.k + 1]) ELSE <<>>],
                    r.env, r.calls)

\* Nest._generator_factory: prod = so[0]; prod = _two_product(so[j], prod) ...
\* NestNext(o, j, ..) takes the next result of the j-th product.
\* _two_product(sweep_object1 = so[j], sweep_object2 = product j-1):
\*     for result2 in sweep_object2:
\*         for result1 in sweep_object1:
\*             result1.update(result2); yield result1
NestNext(o, j, lev, env, cl) ==
    IF j = 1
    THEN LET r == GenNext(o.objs[1], lev[1].g, env, cl)
         IN Step(r.done, r.res, [lev EXCEPT ![1].g = r.g], r.env, r.calls)
    ELSE IF lev[j].on
    THEN LET r1 == GenNext(o.objs[j], lev[j].g, env, cl)
         IN IF ~r1.done
            THEN Step(FALSE, Update(r1.res, lev[j - 1].res),
                      [lev EXCEPT ![j].g = r1.g], r1.env, r1.calls)
            ELSE NestNext(o, j, [lev EXCEPT ![j].on = FALSE, ![j].g = r1.g],
                          r1.env, r1.calls)
    ELSE LET r2 == NestNext(o, j - 1, lev, env, cl)
         IN IF r2.done
            THEN Step(TRUE, EmptyRes, r2.g, r2.env, r2.calls)
            ELSE NestNext(o, j,
                    [r2.g EXCEPT ![j - 1].res = r2.res, ![j].on = TRUE,
                                 ![j].g = GenInit(o.objs[j])],
                    r2.env, r2.calls)

\* BaseSweepObject.__next__: next(self._generator)
GenNext(o, g, env, cl) ==
    CASE o.type = "Sweep" -> SweepNext(o, g, env, cl)
      [] o.type = "Measure" -> MeasureNext(o, g, env, cl)
      [] o.type = "Call" -> CallObjNext(o, g, env, cl)
      [] o.type = "Chain" -> ChainNext(o, g, env, cl)
      [] o.type = "Nest" ->
            LET r == NestNext(o, Len(o.objs), g.lev, env, cl)
            IN Step(r.done, r.res, [lev |-> r.g], r.env, r.calls)

(***************************************************************************)
(* sweep/measurement.py : SweepMeasurement.register_sweep                  *)
(***************************************************************************)
\* the parameters in the order of the table, not sorted
SortedByDependsOnMutant(param_specs, n) == param_specs

\* sorted(param_specs, key=lambda p: len(p.depends_on_)): a stable sort
RECURSIVE SortedByDependsOn(_, _)
SortedByDependsOn(param_specs, n) ==
    IF n > Len(param_specs) THEN <<>>
    ELSE SelectSeq(param_specs, LAMBDA p : Len(p.depends_on) = n - 1)
         \o SortedByDependsOn(param_specs, n + 1)

\* a register_sweep that passes the setpoints in reverse order
RegisterSweepMutant(o) ==
    LET param_specs == ResolveDependencies(o.table)
        param_specs_sorted == SortedByDependsOn(param_specs, 1)
    IN [i \in 1..Len(param_specs_sorted) |->
            [name |-> param_specs_sorted[i].name,
             setpoints |-> [j \in 1..Len(param_specs_sorted[i].depends_on) |->
                 param_specs_sorted[i].depends_on[
                     Len(param_specs_sorted[i].depends_on) + 1 - j]]]]

\* register_sweep: the calls of register_custom_parameter, in order
RegisterSweepOp(o) ==
    LET param_specs == ResolveDependencies(o.table)
        param_specs_sorted == SortedByDependsOn(param_specs, 1)
    IN [i \in 1..Len(param_specs_sorted) |->
            [name |-> param_specs_sorted[i].name,
             setpoints |-> param_specs_sorted[i].depends_on]]

(***************************************************************************)
(* SpecBuild: Sweep and Measure objects are created, combined with Nest    *)
(* and Chain, and the finished sweep object is handed to register_sweep    *)
(***************************************************************************)
RECURSIVE LeafNames(_)
LeafNames(o) ==
    IF o.type \in {"Sweep", "Measure"} THEN {o.name}
    ELSE UNION {LeafNames(o.objs[i]) : i \in 1..Len(o.objs)}

\* the levels of Nest and Chain in o, counting the leaf
RECURSIVE Depth(_)
RECURSIVE DeepestFrom(_, _)
DeepestFrom(objs, i) ==
    IF i > Len(objs) THEN 0
    ELSE LET d == Depth(objs[i])
             rest == DeepestFrom(objs, i + 1)
         IN IF d > rest THEN d ELSE rest
Depth(o) ==
    IF o.type \in {"Sweep", "Measure"} THEN 1 ELSE 1 + DeepestFrom(o.objs, 1)

UsedNames == UNION {LeafNames(stack[i]) : i \in 1..Len(stack)}
Range(seq) == {seq[i] : i \in 1..Len(seq)}
NumUsed(names) == Cardinality(UsedNames \cap Range(names))
Top == stack[Len(stack)]

\* lambda: sweep_values, a list of len set values
SetValues(len) == [j \in 1..len |-> j - 1]

CtorCall(ctor, args, r) == [ctor |-> ctor, args |-> args, err |-> r.err, msg |-> r.msg]

NoParams == [n \in Range(SweepNames) |-> NoneVal]

InitBuild ==
    /\ stack = <<>> /\ ctorErr = CtorCall("none", <<>>, Constructed(NoObj))
    /\ phase = "build" /\ gen = <<>>
    /\ params = NoParams
    /\ results = <<>> /\ calls = <<>> /\ regs = <<>>
    /\ bag = <<>> /\ op = NoOp /\ ret = NoRet
    /\ RunIdle /\ AcqIdle /\ ConvIdle /\ RestIdle

\* Sweep(setter, table, lambda: values) for the next unused parameter
MkSweep ==
    /\ phase = "build" /\ Cardinality(UsedNames) < MaxObjs
    /\ NumUsed(SweepNames) < Len(SweepNames)
    /\ LET o == SweepObj(SweepNames[NumUsed(SweepNames) + 1], SetValues(MaxLen))
       IN /\ stack' = Append(stack, o)
          /\ ctorErr' = CtorCall("Sweep", <<>>, Constructed(o))
    /\ UNCHANGED <<phase, gen, params, results, calls, regs>>

\* Measure(getter, table) for the next unused parameter
MkMeasure ==
    /\ phase = "build" /\ Cardinality(UsedNames) < MaxObjs
    /\ NumUsed(MeasureNames) < Len(MeasureNames)
    /\ LET o == MeasureObj(MeasureNames[NumUsed(MeasureNames) + 1])
       IN /\ stack' = Append(stack, o)
          /\ ctorErr' = CtorCall("Measure", <<>>, Constructed(o))
    /\ UNCHANGED <<phase, gen, params, results, calls, regs>>

\* Nest(*args) on the k newest objects, k >= 2
MkNest ==
    /\ phase = "build"
    /\ \E k \in 2..Len(stack) :
          LET args == SubSeq(stack, Len(stack) - k + 1, Len(stack))
              r == NestCtor(args)
          IN /\ \A i \in 1..k : Depth(args[i]) < MaxDepth
             /\ ctorErr' = CtorCall("Nest", args, r)
             /\ stack' = IF r.err = "none"
                         THEN Append(SubSeq(stack, 1, Len(stack) - k), r.obj)
                         ELSE stack
    /\ UNCHANGED <<phase, gen, params, results, calls, regs>>

\* Chain(*args) on the k newest objects; a chain of one member is built
\* around a Sweep or a Measure only
MkChain ==
    /\ phase = "build"
    /\ \E k \in 1..Len(stack) :
          LET args == SubSeq(stack, Len(stack) - k + 1, Len(stack))
              r == ChainCtor(args)
          IN /\ \A i \in 1..k : Depth(args[i]) < MaxDepth
             /\ k = 1 => Depth(args[1]) = 1
             /\ ctorErr' = CtorCall("Chain", args, r)
             /\ stack' = Append(SubSeq(stack, 1, Len(stack) - k), r.obj)
    /\ UNCHANGED <<phase, gen, params, results, calls, regs>>

\* SweepMeasurement().register_sweep(sweep_object) on the finished object
RegisterSweep ==
    /\ phase = "build" /\ Len(stack) = 1
    /\ regs' = RegisterSweepOp(Top)
    /\ phase' = "registered"
    /\ UNCHANGED <<stack, ctorErr, gen, params, results, calls>>

NextBuild ==
    \/ MkSweep /\ UNCHANGED <<bagVars, runVars, acqVars, convVars, restVars>>
    \/ MkMeasure /\ UNCHANGED <<bagVars, runVars, acqVars, convVars, restVars>>
    \/ MkNest /\ UNCHANGED <<bagVars, runVars, acqVars, convVars, restVars>>
    \/ MkChain /\ UNCHANGED <<bagVars, runVars, acqVars, convVars, restVars>>
    \/ RegisterSweep /\ UNCHANGED <<bagVars, runVars, acqVars, convVars, restVars>>

SpecBuild == InitBuild /\ [][NextBuild]_vars

(***************************************************************************)
(* SpecIter: a constructed sweep object is iterated with next().  The      *)
(* object is Nest(S1, .., Sn, last), or last alone when n = 0, where last  *)
(* is a member or a Chain of members and a member is a Measure, a call     *)
(* sweep object, a Sweep or Nest(Sweep, Measure); n = 0..MaxNest, an outer Sweep has no, MaxLen - 1 *)
(* or MaxLen values and the Sweep of a member has MaxLen (or none).        *)
(***************************************************************************)
MemberSpecs ==
    {[kind |-> "M", len |-> 0], [kind |-> "C", len |-> 0],
     [kind |-> "S", len |-> 0],
     [kind |-> "S", len |-> MaxLen], [kind |-> "NSM", len |-> MaxLen]}

\* the member described by ms, using the ns-th sweep and nm-th measure name
Member(ms, ns, nm) ==
    CASE ms.kind = "M" -> MeasureObj(MeasureNames[nm])
      [] ms.kind = "C" -> CallObj(CallName)
      [] ms.kind = "S" -> SweepObj(SweepNames[ns], SetValues(ms.len))
      [] ms.kind = "NSM" ->
            NestCtor(<<SweepObj(SweepNames[ns], SetValues(ms.len)),
                       MeasureObj(MeasureNames[nm])>>).obj

\* what may stand last behind n sweeps: nothing, a member, or a Chain
Lasts(n) ==
    (IF n >= 2 THEN {<<>>} ELSE {})
    \cup {<<Member(ms, n + 1, 1)>> : ms \in MemberSpecs}
    \cup UNION {{<<ChainCtor([j \in 1..m |-> Member(f[j], n + j, j)]).obj>> :
                    f \in [1..m -> MemberSpecs]} : m \in 1..MaxMembers}

IterObjects ==
    UNION {UNION {{IF n = 0 THEN last[1]
                   ELSE NestCtor([k \in 1..n |->
                            SweepObj(SweepNames[k], SetValues(lens[k]))]
                            \o last).obj :
                        last \in Lasts(n)} :
                  lens \in [1..n -> {0, MaxLen - 1, MaxLen}]} :
           n \in 0..MaxNest}

InitIter ==
    /\ \E o \in IterObjects : stack = <<o>>
    /\ ctorErr = CtorCall("none", <<>>, Constructed(NoObj))
    /\ phase = "build" /\ gen = <<>>
    /\ params = NoParams
    /\ results = <<>> /\ calls = <<>> /\ regs = <<>>
    /\ bag = <<>> /\ op = NoOp /\ ret = NoRet
    /\ RunIdle /\ AcqIdle /\ ConvIdle /\ RestIdle

\* next(sweep_object); the first call starts the generator, and a call that
\* ends in StopIteration yields nothing
CallNext ==
    /\ phase \in {"build", "iter"}
    /\ LET g0 == IF phase = "build" THEN GenInit(Top) ELSE gen
           r == GenNext(Top, g0, params, <<>>)
       IN /\ gen' = r.g
          /\ params' = r.env
          /\ calls' = calls \o r.calls
          /\ IF r.done
             THEN phase' = "done" /\ results' = results
             ELSE phase' = "iter" /\ results' = Append(results, r.res)
    /\ UNCHANGED <<stack, ctorErr, regs>>

NextIter == CallNext /\ UNCHANGED <<bagVars, runVars, acqVars, convVars, restVars>>

SpecIter == InitIter /\ [][NextIter]_vars

(***************************************************************************)
(* Properties of sweep object iteration                                    *)
(***************************************************************************)
RECURSIVE Flat(_)
Flat(seqs) == IF seqs = <<>> THEN <<>> ELSE Head(seqs) \o Flat(Tail(seqs))

IsSweepsThenMeasure(o) ==
    /\ o.type = "Nest" /\ Len(o.objs) >= 2
    /\ \A k \in 1..(Len(o.objs) - 1) : o.objs[k].type = "Sweep"
    /\ o.objs[Len(o.objs)].type = "Measure"

IsSweepsThenChain(o) ==
    /\ o.type = "Nest" /\ Len(o.objs) >= 2
    /\ \A k \in 1..(Len(o.objs) - 1) : o.objs[k].type = "Sweep"
    /\ o.objs[Len(o.objs)].type = "Chain"

\* the instrument state in which exactly S1..Sn hold the values of combo
PointEnv(o, n, combo) ==
    [nm \in Range(SweepNames) |->
        IF \E k \in 1..n : o.objs[k].name = nm
        THEN combo[CHOOSE k \in 1..n : o.objs[k].name = nm]
        ELSE NoneVal]

\* the set values of S1..Sn for combo, as a dictionary
PointSets(o, n, combo) == [nm \in {o.objs[k].name : k \in 1..n} |->
                              combo[CHOOSE k \in 1..n : o.objs[k].name = nm]]

\* what Nest(S1, .., Sn, M) is to yield: one dictionary per element of the
\* product, with the set values and the reading of M at that point
ExpectedNest(o) ==
    LET n == Len(o.objs) - 1
        m == o.objs[n + 1].name
        combos == Product([k \in 1..n |-> o.objs[k].values])
    IN [j \in 1..Len(combos) |->
            [key \in {o.objs[k].name : k \in 1..n} \cup {m} |->
                IF key = m THEN Reading(PointEnv(o, n, combos[j]))
                ELSE PointEnv(o, n, combos[j])[key]]]

\* C1: iterating Nest(S1, .., Sn, M) yields exactly one result per element
\* of the Cartesian product of the set-value lists, in itertools.product
\* order, each holding the set value of every Si and the value M returned
\* at that point.
C1_NestYieldsProduct ==
    IsSweepsThenMeasure(Top) =>
        /\ IsPrefix(results, ExpectedNest(Top))
        /\ phase = "done" => results = ExpectedNest(Top)

\* a two-dimensional nest of two values each has been iterated to the end
C1_Witness ==
    /\ phase = "done" /\ IsSweepsThenMeasure(Top) /\ Len(Top.objs) = 3
    /\ \A k \in 1..2 : Len(Top.objs[k].values) = 2
    /\ Len(results) = 4

\* all results of iterating o from a fresh generator in instrument state env
RECURSIVE ExhaustFrom(_, _, _, _)
ExhaustFrom(o, g, env, acc) ==
    LET r == GenNext(o, g, env, <<>>)
    IN IF r.done THEN [results |-> acc, env |-> r.env]
       ELSE ExhaustFrom(o, r.g, r.env, Append(acc, r.res))
Exhaust(o, env) == ExhaustFrom(o, GenInit(o), env, <<>>)

\* the results of the members, each run to its end before the next starts
RECURSIVE OneAfterTheOther(_, _)
OneAfterTheOther(objs, env) ==
    IF objs = <<>> THEN <<>>
    ELSE LET first == Exhaust(Head(objs), env)
         IN first.results \o OneAfterTheOther(Tail(objs), first.env)

\* the members of chain o whose parameters are the keys of result r
MembersOf(o, r) == {k \in 1..Len(o.objs) : DOMAIN r \subseteq LeafNames(o.objs[k])}

\* C8: iterating Chain(A, B, ..) yields all results of A in A's order, then
\* all results of B, and so on; no result of a later member comes before a
\* result of an earlier one and no result mixes two members.
C8_ChainOneAfterTheOther ==
    Top.type = "Chain" =>
        /\ IsPrefix(results, OneAfterTheOther(Top.objs, NoParams))
        /\ phase = "done" => results = OneAfterTheOther(Top.objs, NoParams)
        /\ \A a \in 1..Len(results) :
              DOMAIN results[a] # {} => Cardinality(MembersOf(Top, results[a])) = 1
        /\ \A a, b \in 1..Len(results) :
              (a < b /\ DOMAIN results[a] # {} /\ DOMAIN results[b] # {})
                  => \A ka \in MembersOf(Top, results[a]),
                        kb \in MembersOf(Top, results[b]) : ka <= kb

\* a chain of two members that yield two results each has been run to the end
C8_Witness ==
    /\ phase = "done" /\ Top.type = "Chain" /\ Len(Top.objs) = 2
    /\ Len(results) = 4
    /\ MembersOf(Top, results[2]) = {1} /\ MembersOf(Top, results[3]) = {2}

\* what a chained member contributes at one point of the outer sweeps:
\* the keys of each result and its set values
MemberItems(mem, sets) ==
    CASE mem.type = "Measure" ->
            <<[keys |-> DOMAIN sets \cup {mem.name}, sets |-> sets]>>
      [] mem.type = "Call" -> <<[keys |-> DOMAIN sets, sets |-> sets]>>
      [] mem.type = "Sweep" ->
            [v \in 1..Len(mem.values) |->
                [keys |-> DOMAIN sets \cup {mem.name},
                 sets |-> Update(sets, mem.name :> mem.values[v])]]
      [] mem.type = "Nest" ->
            [v \in 1..Len(mem.objs[1].values) |->
                [keys |-> DOMAIN sets \cup {mem.objs[1].name, mem.objs[2].name},
                 sets |-> Update(sets, mem.objs[1].name :> mem.objs[1].values[v])]]

\* for every point in product order: the items of C1, then C2, .., then Cm
ExpectedNestChain(o) ==
    LET n == Len(o.objs) - 1
        chain == o.objs[n + 1]
        combos == Product([k \in 1..n |-> o.objs[k].values])
    IN Flat([j \in 1..Len(combos) |->
            Flat([c \in 1..Len(chain.objs) |->
                    MemberItems(chain.objs[c], PointSets(o, n, combos[j]))])])

\* the keys of a result and the set values it carries
Observed(r) ==
    [keys |-> DOMAIN r,
     sets |-> [nm \in (DOMAIN r) \cap Range(SweepNames) |-> r[nm]]]

\* C9: iterating Nest(S1, .., Sn, Chain(C1, .., Cm)) yields, for every point
\* of the product of S1..Sn in order, the results of C1, then C2, .., then
\* Cm, each carrying the set values of S1..Sn for that point; a member
\* Nest(inner sweep, measurement) gives one result per inner set value.
C9_NestChainPerPoint ==
    IsSweepsThenChain(Top) =>
        LET seen == [a \in 1..Len(results) |-> Observed(results[a])]
        IN /\ IsPrefix(seen, ExpectedNestChain(Top))
           /\ phase = "done" => seen = ExpectedNestChain(Top)

\* Nest(S, Chain(M, Nest(S', M'))) with two values per sweep has been run to
\* the end: 2 * (1 + 2) results
C9_Witness ==
    /\ phase = "done" /\ IsSweepsThenChain(Top) /\ Len(Top.objs) = 2
    /\ Len(Top.objs[1].values) = 2
    /\ Len(Top.objs[2].objs) = 2
    /\ Top.objs[2].objs[1].type = "Measure"
    /\ Top.objs[2].objs[2].type = "Nest"
    /\ Len(Top.objs[2].objs[2].objs[1].values) = 2
    /\ Len(results) = 6

(***************************************************************************)
(* Properties of the constructors and of register_sweep                    *)
(***************************************************************************)
\* C10: constructing Nest(o1, .., on) raises TypeError whenever a sweep object
\* other than the last one is measurable.
C10_NestRejectsMeasurable ==
    (ctorErr.ctor = "Nest"
       /\ \E i \in 1..(Len(ctorErr.args) - 1) : ctorErr.args[i].measurable)
    => ctorErr.err = "TypeError"

\* Nest was refused only because an object before the last is measurable
C10_Witness ==
    /\ ctorErr.ctor = "Nest" /\ ctorErr.err = "TypeError"
    /\ \E i \in 1..(Len(ctorErr.args) - 1) : ctorErr.args[i].measurable
    /\ \A i \in 1..(Len(ctorErr.args) - 1) : ~HasChain(ctorErr.args[i])

\* the leaves of o, left to right
RECURSIVE Leaves(_)
Leaves(o) ==
    IF o.type \in {"Sweep", "Measure"} THEN <<o>>
    ELSE Flat([i \in 1..Len(o.objs) |-> Leaves(o.objs[i])])

LeafSeqNames(o) == [i \in 1..Len(Leaves(o)) |-> Leaves(o)[i].name]

\* the parameters of the sweep objects that enclose leaf name in o: for
\* every Nest on the way down, those of the objects in front of the one
\* that holds the leaf, outermost first
RECURSIVE Enclosing(_, _)
Enclosing(o, name) ==
    IF o.type \in {"Sweep", "Measure"} THEN <<>>
    ELSE LET k == CHOOSE i \in 1..Len(o.objs) : name \in LeafNames(o.objs[i])
         IN (IF o.type = "Nest"
             THEN Flat([i \in 1..(k - 1) |-> LeafSeqNames(o.objs[i])])
             ELSE <<>>)
            \o Enclosing(o.objs[k], name)

IsMeasureName(name) == name \in Range(MeasureNames)
IsSweepName(name) == name \in Range(SweepNames)

\* the sweep of parameter s encloses some leaf / some measurement of o
EnclosesSomething(o, s) ==
    \E t \in LeafNames(o) : s \in Range(Enclosing(o, t))
EnclosesMeasurement(o, s) ==
    \E t \in LeafNames(o) : IsMeasureName(t) /\ s \in Range(Enclosing(o, t))

Registered(name) == \E a \in 1..Len(regs) : regs[a].name = name
SetpointsOf(name) == regs[CHOOSE a \in 1..Len(regs) : regs[a].name = name].setpoints

\* measured parameters get their enclosing sweeps' parameters as setpoints
MeasuredHaveEnclosingSetpoints ==
    \A m \in LeafNames(Top) :
        IsMeasureName(m) => Registered(m) /\ SetpointsOf(m) = Enclosing(Top, m)

\* every setpoint is a registered independent parameter
SetpointsAreRegistered ==
    \A a \in 1..Len(regs) : \A b \in 1..Len(regs[a].setpoints) :
        /\ IsSweepName(regs[a].setpoints[b])
        /\ Registered(regs[a].setpoints[b])

\* C3 as stated: after register_sweep every measured parameter has as
\* setpoints the parameters of the enclosing sweeps, outermost first, every
\* setpoint is a registered independent parameter, and the parameters of
\* sweeps that enclose no measurement are standalone.
C3_RegisterAsStated ==
    phase = "registered" =>
        /\ MeasuredHaveEnclosingSetpoints
        /\ SetpointsAreRegistered
        /\ \A s \in LeafNames(Top) :
              (IsSweepName(s) /\ ~EnclosesMeasurement(Top, s))
                  => Registered(s) /\ SetpointsOf(s) = <<>>

\* C3 amended: the same, except that a sweep that encloses nothing at all
\* and is itself enclosed by other sweeps has those sweeps' parameters as
\* setpoints; the other sweeps that enclose no measurement are standalone.
C3_RegisterEnclosingSetpoints ==
    phase = "registered" =>
        /\ MeasuredHaveEnclosingSetpoints
        /\ SetpointsAreRegistered
        /\ \A s \in LeafNames(Top) :
              (IsSweepName(s) /\ ~EnclosesMeasurement(Top, s))
                  => /\ Registered(s)
                     /\ SetpointsOf(s) = (IF EnclosesSomething(Top, s)
                                          THEN <<>> ELSE Enclosing(Top, s))

\* a registered object with a measurement inside two sweeps and, chained
\* next to it, a sweep that is enclosed but encloses nothing
C3_Witness ==
    /\ phase = "registered"
    /\ \E m \in LeafNames(Top) : IsMeasureName(m) /\ Len(Enclosing(Top, m)) = 2
    /\ \E s \in LeafNames(Top) :
          /\ IsSweepName(s) /\ ~EnclosesSomething(Top, s)
          /\ Len(Enclosing(Top, s)) = 2

\* o is a Chain or has a Chain among the objects it was built from
RECURSIVE BuiltFromChain(_)
BuiltFromChain(o) ==
    \/ o.type = "Chain"
    \/ \E i \in 1..Len(o.objs) : BuiltFromChain(o.objs[i])

IsCallInsideSweep(o) ==
    /\ o.type = "Nest" /\ Len(o.objs) = 2
    /\ o.objs[1].type = "Sweep"
    /\ o.objs[2].type = "Chain" /\ Len(o.objs[2].objs) = 1
    /\ o.objs[2].objs[1].type = "Call"

\* p is set to its j-th value and then f is called, for j = 1..n
SetThenCall(o, n) ==
    Flat([j \in 1..n |->
        <<Call("set", o.objs[1].name, o.objs[1].values[j]),
          Call("call", o.objs[2].objs[1].name,
               Reading([NoParams EXCEPT ![o.objs[1].name] = o.objs[1].values[j]]))>>])

Arr0(c) == [ndim |-> 0, scalar |-> c, row |-> <<>>, rows |-> <<>>]
Arr1(r) == [ndim |-> 1, scalar |-> 0, row |-> r, rows |-> <<>>]
Arr2(m) == [ndim |-> 2, scalar |-> 0, row |-> <<>>, rows |-> m]

\* iterating over an array: the rows of a matrix, the elements of a row
Iterate(a) ==
    IF a.ndim = 2 THEN [k \in 1..Len(a.rows) |-> Arr1(a.rows[k])]
    ELSE [j \in 1..Len(a.row) |-> Arr0(a.row[j])]
IndNames == <<"time", "space">>
DepNames == <<"magn", "phas">>
ParamTypes == {"numeric", "array"}

\* the value the decorated function puts in row k, column j
SetPoint(k, j) == 10 * k + j
Measured(k, j) == 100 + 10 * k + j

\* the value in row k, column j of the setpoint or the measurement array
Cell(which, k, j) == IF which = "ind" THEN SetPoint(k, j) ELSE Measured(k, j)

\* the forms in which a function can return a rows x cols array
ArrayForms(which, rows, cols) ==
    {Arr2([k \in 1..rows |-> [j \in 1..cols |-> Cell(which, k, j)]])}
    \cup (IF rows = 1 THEN {Arr1([j \in 1..cols |-> Cell(which, 1, j)])} ELSE {})
    \cup (IF rows = 1 /\ cols = 1 THEN {Arr0(Cell(which, 1, 1))} ELSE {})

\* np.atleast_2d
AtLeast2d(a) ==
    CASE a.ndim = 0 -> Arr2(<< <<a.scalar>> >>)
      [] a.ndim = 1 -> Arr2(<<a.row>>)
      [] OTHER -> a

\* array.T of a two-dimensional array: its columns become the rows
Transposed(a) ==
    IF a.rows = <<>> THEN a
    ELSE Arr2([j \in 1..Len(a.rows[1]) |->
                [k \in 1..Len(a.rows) |-> a.rows[k][j]]])

\* array.shape[0] of a two-dimensional array
Shape0(a) == Len(a.rows)

\* {k[0]: v for k, v in zip(names, values)}
ZipDict(names, values) ==
    LET n == IF Len(names) < Len(values) THEN Len(names) ELSE Len(values)
    IN [key \in {names[k] : k \in 1..n} |->
            values[CHOOSE k \in 1..n : names[k] = key]]

\* hardsweep(ind, dep)(func)(): the sweep object; ind and dep hold the
\* paramtype of every parameter, func returns (spoints, measurements)
HardObj(ind, dep, spoints, measurements) ==
    [type |-> "Hard", name |-> "",
     values |-> [ind |-> ind, dep |-> dep,
                 spoints |-> spoints, measurements |-> measurements],
     objs |-> <<>>, measurable |-> TRUE,
     table |-> TableProd(<<
         TableProd([k \in 1..Len(ind) |-> ParamTable(<<IndNames[k]>>)]),
         TableAdd([k \in 1..Len(dep) |-> ParamTable(<<DepNames[k]>>)])>>)]

\* an any_array that is true only when every parameter is an array
AnyArrayMutant(o) ==
    /\ \A k \in 1..Len(o.values.ind) : o.values.ind[k] = "array"
    /\ \A k \in 1..Len(o.values.dep) : o.values.dep[k] = "array"

\* any_array = np.any(np.array([ind_paramtypes + dep_paramtypes]) == 'array')
AnyArray(o) ==
    \/ \E k \in 1..Len(o.values.ind) : o.values.ind[k] = "array"
    \/ \E k \in 1..Len(o.values.dep) : o.values.dep[k] = "array"

HardStep(done, err, res, g) == [done |-> done, err |-> err, res |-> res, g |-> g]

\* one next() of the generator wrapper()
HardNext(o, g) ==
    LET spoints == AtLeast2d(o.values.spoints)
        measurements == AtLeast2d(o.values.measurements)
        names_ind == SubSeq(IndNames, 1, Len(o.values.ind))
        names_dep == SubSeq(DepNames, 1, Len(o.values.dep))
        cols_s == Iterate(Transposed(spoints))
        cols_m == Iterate(Transposed(measurements))
        n == IF Len(cols_s) < Len(cols_m) THEN Len(cols_s) ELSE Len(cols_m)
    IN IF Shape0(spoints) # Len(o.values.ind)
          \/ Shape0(measurements) # Len(o.values.dep)
       THEN HardStep(TRUE, "ValueError", EmptyRes, g)
       ELSE IF AnyArray(o)
       THEN IF g.i = 0
            THEN HardStep(FALSE, "none",
                          Update(ZipDict(names_ind, Iterate(spoints)),
                                 ZipDict(names_dep, Iterate(measurements))),
                          [i |-> 1])
            ELSE HardStep(TRUE, "none", EmptyRes, g)
       ELSE IF g.i < n
            THEN HardStep(FALSE, "none",
                          Update(ZipDict(names_ind, Iterate(cols_s[g.i + 1])),
                                 ZipDict(names_dep, Iterate(cols_m[g.i + 1]))),
                          [i |-> g.i + 1])
            ELSE HardStep(TRUE, "none", EmptyRes, g)

MaxCols == 2        \* columns of an array the decorated function returns

HardObjects ==
    UNION {UNION {{HardObj(ind, dep, sp, ms) :
                        sp \in ArrayForms("ind", rs, ns),
                        ms \in ArrayForms("dep", rm, nm)} :
                  rs \in 1..Len(IndNames), rm \in 1..Len(DepNames),
                  ns \in 0..MaxCols, nm \in 0..MaxCols} :
           ind \in UNION {[1..n -> ParamTypes] : n \in 1..Len(IndNames)},
           dep \in UNION {[1..n -> ParamTypes] : n \in 1..Len(DepNames)}}

InitHard ==
    /\ \E o \in HardObjects : stack = <<o>>
    /\ ctorErr = CtorCall("hardsweep", <<>>, Constructed(NoObj))
    /\ phase = "build" /\ gen = <<>>
    /\ params = NoParams
    /\ results = <<>> /\ calls = <<>> /\ regs = <<>>
    /\ bag = <<>> /\ op = NoOp /\ ret = NoRet
    /\ RunIdle /\ AcqIdle /\ ConvIdle /\ RestIdle

\* next(sweep_object) on the hardsweep object
HardCallNext ==
    /\ phase \in {"build", "iter"}
    /\ LET g0 == IF phase = "build" THEN [i |-> 0] ELSE gen
           r == HardNext(Top, g0)
       IN /\ gen' = r.g
          /\ IF r.err # "none"
             THEN phase' = r.err /\ results' = results
             ELSE IF r.done
             THEN phase' = "done" /\ results' = results
             ELSE phase' = "iter" /\ results' = Append(results, r.res)
    /\ UNCHANGED <<stack, ctorErr, params, calls, regs>>

NextHard == HardCallNext /\ UNCHANGED <<bagVars, runVars, acqVars, convVars, restVars>>

SpecHard == InitHard /\ [][NextHard]_vars

\* the function returned a (len(ind) x n) and a (len(dep) x n) array
HardShapes(o, n) ==
    /\ Len(AtLeast2d(o.values.spoints).rows) = Len(o.values.ind)
    /\ Len(AtLeast2d(o.values.measurements).rows) = Len(o.values.dep)
    /\ \A k \in 1..Len(o.values.ind) :
          Len(AtLeast2d(o.values.spoints).rows[k]) = n
    /\ \A k \in 1..Len(o.values.dep) :
          Len(AtLeast2d(o.values.measurements).rows[k]) = n

AllNumeric(o) ==
    /\ \A k \in 1..Len(o.values.ind) : o.values.ind[k] = "numeric"
    /\ \A k \in 1..Len(o.values.dep) : o.values.dep[k] = "numeric"

HardKeys(o) == {IndNames[k] : k \in 1..Len(o.values.ind)}
               \cup {DepNames[k] : k \in 1..Len(o.values.dep)}

\* the result holding column j of both arrays
ColumnResult(o, j) ==
    [key \in HardKeys(o) |->
        IF \E k \in 1..Len(o.values.ind) : IndNames[k] = key
        THEN Arr0(SetPoint(CHOOSE k \in 1..Len(o.values.ind) : IndNames[k] = key, j))
        ELSE Arr0(Measured(CHOOSE k \in 1..Len(o.values.dep) : DepNames[k] = key, j))]

\* the result holding the whole rows of both arrays
RowsResult(o, n) ==
    [key \in HardKeys(o) |->
        IF \E k \in 1..Len(o.values.ind) : IndNames[k] = key
        THEN Arr1([j \in 1..n |->
                SetPoint(CHOOSE k \in 1..Len(o.values.ind) : IndNames[k] = key, j)])
        ELSE Arr1([j \in 1..n |->
                Measured(CHOOSE k \in 1..Len(o.values.dep) : DepNames[k] = key, j)])]

\* C13: when the decorated function returns a (len(ind) x N) set-point array
\* and a (len(dep) x N) measurement array, the hardsweep object yields N
\* results, the j-th holding column j of both arrays, if every parameter is
\* numeric; if any parameter has paramtype array it yields exactly one
\* result holding the whole rows.
C13_HardsweepColumnsOrRows ==
    \A n \in 0..(MaxCols + 1) :
        (Top.type = "Hard" /\ HardShapes(Top, n)) =>
            LET expected == IF AllNumeric(Top)
                            THEN [j \in 1..n |-> ColumnResult(Top, j)]
                            ELSE <<RowsResult(Top, n)>>
            IN /\ phase \in {"build", "iter", "done"}
               /\ IsPrefix(results, expected)
               /\ phase = "done" => results = expected

\* two numeric set-point rows and one numeric measurement row of two columns
\* have been iterated to the end
C13_Witness ==
    /\ Top.type = "Hard" /\ phase = "done" /\ AllNumeric(Top)
    /\ HardShapes(Top, 2) /\ Len(Top.values.ind) = 2
    /\ Len(results) = 2

(***************************************************************************)
(* rf/alazar/acquisition_controllers.py and softsweep.py.  SpecAcq drives  *)
(* one controller the way the digitizer driver does: setup_acquisition,    *)
(* then per acquisition pre_start_capture, pre_acquire, one                *)
(* buffer_done_callback and handle_buffer per delivered buffer, and        *)
(* post_acquire.  A buffer holds one record of one sample per channel.     *)
(* Voltages are kept as exact fractions [num, den] of the channel range.   *)
(***************************************************************************)
NumberOfChannels == 2
NBits == 12
MaxBuffers == 3     \* buffers per acquisition, buffers per block, sweep values
MaxRuns == 2        \* acquisitions started on one controller
MaxPoints == 2      \* sweep values handed to setup_triggered_softsweep

None == 0           \* a parameter that has not been set
BufferLen == 1 * 1 * NumberOfChannels
Signals == {"low", "mid"}

\* the raw samples of buffer n: 12-bit codes in the upper bits of 16
Buffer(sig, n) ==
    [ch \in 1..NumberOfChannels |->
        16 * (IF sig = "low" THEN 100 + 10 * n + ch ELSE 2048 + ch - 1)]

\* sweep_vals of a soft sweep with npts points
SweepVals(npts) == [j \in 1..npts |-> 500 + j]

NoData == [none |-> TRUE, arr |-> <<>>]
Zeros(n) == [none |-> FALSE, arr |-> [i \in 1..n |-> 0]]

\* BaseAcqCtl.__init__ / SoftSweepCtl.__init__ with the parameters set
Controller(kind, avg, bpb, numbered, npts) ==
    [kind |-> kind,
     dtype_bits |-> IF kind = "Raw" THEN 16 ELSE 32,
     average_buffers |-> avg, buffers_per_block |-> bpb,
     numbered |-> numbered, sweep_vals |-> SweepVals(npts),
     buffers_per_acquisition |-> None,
     nblocks |-> 1, data_size |-> None, cur_block_idx |-> 0,
     step |-> 0, swept |-> None, sets |-> <<>>,
     phase |-> "constructed", completed |-> 0, run |-> 0, sig |-> "low"]

Pow2(n) == 2 ^ n
Ceil(a, b) == (a + b - 1) \div b

\* _nblocks computed with a floor instead of np.ceil
NBlocksMutant(c, buffers) ==
    IF c.buffers_per_block # None /\ c.average_buffers
    THEN buffers \div c.buffers_per_block
    ELSE 1

\* setup_acquisition: self._nblocks
NBlocks(c, buffers) ==
    IF c.buffers_per_block # None /\ c.average_buffers
    THEN Ceil(buffers, c.buffers_per_block)
    ELSE 1

\* setup_acquisition: self.data_size
DataSize(c, buffers) ==
    IF ~c.average_buffers THEN BufferLen * buffers
    ELSE IF NBlocks(c, buffers) > 1 THEN BufferLen * NBlocks(c, buffers)
    ELSE BufferLen

\* self.data[:n] = 0
ZeroPrefix(d, n) ==
    [d EXCEPT !.arr = [i \in 1..Len(d.arr) |-> IF i <= n THEN 0 ELSE d.arr[i]]]

AcqReturned(kind, val) == [kind |-> kind, val |-> val]

InitAcq ==
    /\ \E kind \in {"Raw", "Soft"}, avg \in BOOLEAN, numbered \in BOOLEAN,
          bpb \in {None} \cup 1..MaxBuffers, npts \in 1..MaxBuffers,
          allocate_samples \in {0, 1, BufferLen * (MaxBuffers + 1)} :
          /\ kind = "Soft" => (bpb # None /\ numbered)
          /\ kind = "Raw" => npts = 1
          /\ ctl = Controller(kind, avg, bpb, numbered, npts)
          /\ data = IF allocate_samples > 0 THEN Zeros(allocate_samples) ELSE NoData
    /\ acqLog = <<>> /\ acqRet = AcqReturned("none", <<>>) /\ awg = <<>>
    /\ bag = <<>> /\ op = NoOp /\ ret = NoRet
    /\ RunIdle /\ SweepIdle /\ ConvIdle /\ RestIdle

\* setup_acquisition(samples, records, buffers) on the controller c: the
\* sizes are computed, then the accumulation region is cleared, then the
\* array is (re)allocated
SetupWith(c0, buffers) ==
    LET c == [c0 EXCEPT !.buffers_per_acquisition = buffers,
                        !.nblocks = NBlocks(c0, buffers),
                        !.data_size = DataSize(c0, buffers)]
    IN IF data.none
       THEN /\ ctl' = [c EXCEPT !.phase = "failed"]
            /\ data' = data
            /\ acqRet' = AcqReturned("TypeError", <<>>)
       ELSE /\ ctl' = [c EXCEPT !.phase = "ready"]
            /\ data' = IF Len(data.arr) < c.data_size
                       THEN Zeros(c.data_size)
                       ELSE ZeroPrefix(data, c.data_size)
            /\ acqRet' = AcqReturned("setup", <<>>)

SetupAcquisition ==
    /\ ctl.phase \in {"constructed", "ready", "acquired"}
    /\ \E buffers \in 1..MaxBuffers : SetupWith(ctl, buffers)
    /\ UNCHANGED <<acqLog, awg>>

\* setup_triggered_softsweep arguments, in units of 0.1 ms
IntegrationTimes == {2, 3, 6}
TimeBins == {1, 2}

\* a setup that checks the integration time after configuring
SetupTriggeredMutant(npts, integration_time, time_bin, setup_awg) ==
    LET navgs == integration_time \div time_bin
    IN /\ awg' = IF setup_awg THEN [nreps_per_cycle |-> navgs] ELSE awg
       /\ IF navgs < 3
          THEN /\ acqRet' = AcqReturned("ValueError", <<>>)
               /\ ctl' = [ctl EXCEPT !.sweep_vals = SweepVals(npts),
                                     !.buffers_per_block = navgs,
                                     !.average_buffers = TRUE]
               /\ UNCHANGED data
          ELSE SetupWith([ctl EXCEPT !.sweep_vals = SweepVals(npts),
                                     !.buffers_per_block = navgs,
                                     !.average_buffers = TRUE],
                         navgs * npts)

\* setup_triggered_softsweep(controller, sweep_param, sweep_vals,
\* integration_time, time_bin, setup_awg)
SetupTriggered(npts, integration_time, time_bin, setup_awg) ==
    LET navgs == integration_time \div time_bin
    IN IF navgs < 3
       THEN /\ acqRet' = AcqReturned("ValueError", <<>>)
            /\ UNCHANGED <<ctl, data, awg>>
       ELSE /\ awg' = IF setup_awg THEN [nreps_per_cycle |-> navgs] ELSE awg
            /\ SetupWith([ctl EXCEPT !.sweep_vals = SweepVals(npts),
                                     !.buffers_per_block = navgs,
                                     !.average_buffers = TRUE],
                         navgs * npts)

\* the soft sweep is set up on a controller that was just constructed
SetupTriggeredSoftsweep ==
    /\ ctl.kind = "Soft"
    /\ ctl.phase = "constructed"
    /\ \E npts \in 1..MaxPoints, integration_time \in IntegrationTimes,
          time_bin \in TimeBins, setup_awg \in BOOLEAN :
          SetupTriggered(npts, integration_time, time_bin, setup_awg)
    /\ UNCHANGED acqLog

\* a pre_acquire that keeps the step counter of the previous acquisition
PreAcquireStepMutant(c) == c.step

\* pre_acquire: self._step = 0
PreAcquireStep(c) == 0

\* the driver starts an acquisition: pre_start_capture and pre_acquire
StartAcquisition ==
    /\ ctl.phase \in {"ready", "acquired"} /\ ctl.run < MaxRuns
    /\ \E sig \in Signals :
          ctl' = [ctl EXCEPT !.phase = "capturing", !.completed = 0,
                             !.run = ctl.run + 1, !.sig = sig,
                             !.cur_block_idx = 0,
                             !.step = PreAcquireStep(ctl),
                             !.swept = IF ctl.kind = "Soft"
                                       THEN ctl.sweep_vals[1] ELSE ctl.swept,
                             !.sets = IF ctl.kind = "Soft"
                                      THEN <<ctl.sweep_vals[1]>> ELSE <<>>]
    /\ acqRet' = AcqReturned("started", <<>>)
    /\ UNCHANGED <<data, acqLog, awg>>

\* a step that is taken one buffer late
StepDueMutant(c, num) == ((num + 1) % c.buffers_per_block) = 0

\* _perform_step: if ((num+2) % self.buffers_per_block()) == 0
StepDue(c, num) == ((num + 2) % c.buffers_per_block) = 0

\* SoftSweepCtl.buffer_done_callback(buffernum) -> _perform_step(num);
\* the other controllers inherit a callback that does nothing
BufferDoneCallback(c, num) ==
    IF c.kind = "Soft" /\ StepDue(c, num)
    THEN IF c.step + 1 < Len(c.sweep_vals)
         THEN [c EXCEPT !.step = c.step + 1,
                        !.swept = c.sweep_vals[c.step + 2],
                        !.sets = Append(c.sets, c.sweep_vals[c.step + 2])]
         ELSE [c EXCEPT !.step = c.step + 1]
    ELSE c

\* whether that callback called sweep_param
CallbackSets(c, num) ==
    c.kind = "Soft" /\ StepDue(c, num) /\ c.step + 1 < Len(c.sweep_vals)

\* a block index that cycles through the buffers of a block
BlockIdxMutant(c, buffer_number) ==
    IF c.numbered /\ c.buffers_per_block # None
    THEN buffer_number % c.buffers_per_block
    ELSE 0

\* handle_buffer: self._cur_block_idx
BlockIdx(c, buffer_number) ==
    IF c.numbered /\ c.buffers_per_block # None
    THEN buffer_number \div c.buffers_per_block
    ELSE 0

\* arithmetic in the dtype of self.data: uint16 wraps; the int32 sums of
\* a few 16-bit samples stay far below 2^31
Wrap(c, v) == IF c.dtype_bits = 16 THEN v % Pow2(16) ELSE v

\* handle_buffer: the slice of self.data that is written, [lo, hi), and
\* whether the buffer is added to it or stored in it
WrittenSlice(c, buffer_number) ==
    IF ~c.numbered \/ c.average_buffers
    THEN [lo |-> BlockIdx(c, buffer_number) * BufferLen,
          hi |-> (BlockIdx(c, buffer_number) + 1) * BufferLen, add |-> TRUE]
    ELSE [lo |-> buffer_number * BufferLen,
          hi |-> (buffer_number + 1) * BufferLen, add |-> FALSE]

\* handle_buffer(data, buffer_number): self.data afterwards
HandleBuffer(c, d, buf, buffer_number) ==
    LET w == WrittenSlice(c, buffer_number)
    IN [d EXCEPT !.arr = [i \in 1..Len(d.arr) |->
            IF w.lo < i /\ i <= w.hi
            THEN IF w.add THEN Wrap(c, d.arr[i] + buf[i - w.lo])
                 ELSE buf[i - w.lo]
            ELSE d.arr[i]]]

\* the digitizer delivers buffer number ctl.completed
BufferDone ==
    /\ ctl.phase = "capturing" /\ ctl.completed < ctl.buffers_per_acquisition
    /\ LET num == ctl.completed
           buf == Buffer(ctl.sig, num)
           c1 == BufferDoneCallback(ctl, num)
           w == WrittenSlice(c1, num)
           fits == w.hi <= Len(data.arr)
       IN /\ acqLog' = Append(acqLog,
                [run |-> ctl.run, num |-> num, buf |-> buf,
                 set |-> CallbackSets(ctl, num), swept |-> c1.swept,
                 lo |-> w.lo, hi |-> w.hi, add |-> w.add])
          /\ IF fits
             THEN /\ data' = HandleBuffer(c1, data, buf, num)
                  /\ ctl' = [c1 EXCEPT !.cur_block_idx = BlockIdx(c1, num),
                                       !.completed = num + 1]
                  /\ acqRet' = AcqReturned("buffer", <<>>)
             ELSE /\ data' = data
                  /\ ctl' = [c1 EXCEPT !.cur_block_idx = BlockIdx(c1, num),
                                       !.phase = "failed"]
                  /\ acqRet' = AcqReturned("ValueError", <<>>)
    /\ UNCHANGED awg

\* RawAcqCtl.post_acquire / PostDemodCtl.post_acquire: the conversion of one
\* element of self.data to a voltage, as a fraction of the channel range:
\* right_shift by 4, ((x / 2^nbits) - 0.5) * 2, and with average_buffers
\* a division by buffers_per_acquisition and a multiplication by _nblocks
ToVolts(c, x) ==
    [num |-> ((x \div 16) - Pow2(NBits - 1))
                * (IF c.average_buffers THEN c.nblocks ELSE 1),
     den |-> Pow2(NBits - 1)
                * (IF c.average_buffers THEN c.buffers_per_acquisition ELSE 1)]

\* post_acquire: self.data[:self.data_size] converted
PostAcquire ==
    /\ ctl.phase = "capturing" /\ ctl.completed = ctl.buffers_per_acquisition
    /\ ctl' = [ctl EXCEPT !.phase = "acquired"]
    /\ acqRet' = AcqReturned("data",
                     [i \in 1..ctl.data_size |-> ToVolts(ctl, data.arr[i])])
    /\ UNCHANGED <<data, acqLog, awg>>

NextAcq ==
    \/ SetupAcquisition /\ UNCHANGED <<bagVars, runVars, sweepVars, convVars, restVars>>
    \/ SetupTriggeredSoftsweep /\ UNCHANGED <<bagVars, runVars, sweepVars, convVars, restVars>>
    \/ StartAcquisition /\ UNCHANGED <<bagVars, runVars, sweepVars, convVars, restVars>>
    \/ BufferDone /\ UNCHANGED <<bagVars, runVars, sweepVars, convVars, restVars>>
    \/ PostAcquire /\ UNCHANGED <<bagVars, runVars, sweepVars, convVars, restVars>>

SpecAcq == InitAcq /\ [][NextAcq]_vars

\* the callbacks of the running (or just completed) acquisition of a soft
\* sweep: the controller still has the settings they were made with
SoftCallbacks ==
    IF ctl.kind = "Soft" /\ ctl.phase \in {"capturing", "acquired"}
    THEN {i \in DOMAIN acqLog : acqLog[i].run = ctl.run}
    ELSE {}

\* buffer_number // buffers_per_block increases from buffer num + 1 to the
\* buffer being acquired, num + 2
BlockIncreases(num) ==
    (num + 2) \div ctl.buffers_per_block > (num + 1) \div ctl.buffers_per_block

\* how many callbacks of this acquisition, up to number num, saw the increase
IncreasesUpTo(num) == Cardinality({n \in 0..num : BlockIncreases(n)})

\* the value of the swept parameter before callback i
SweptBefore(i) ==
    IF i > 1 /\ acqLog[i - 1].run = acqLog[i].run
    THEN acqLog[i - 1].swept
    ELSE ctl.sweep_vals[1]

\* C14 as stated: SoftSweepCtl sets the swept parameter to the next sweep
\* value exactly on the buffer callbacks for which the block index
\* buffer_number // buffers_per_block increases for the buffer being
\* acquired (two after the number passed), and leaves it unchanged on
\* every other callback.
C14_StepExactlyOnBlockIncrease ==
    \A i \in SoftCallbacks :
        /\ acqLog[i].set <=> BlockIncreases(acqLog[i].num)
        /\ ~acqLog[i].set => acqLog[i].swept = SweptBefore(i)

\* C14 amended: the parameter is set to the next sweep value exactly on the
\* callbacks for which the block index increases and a next sweep value
\* remains; on every other callback it is left unchanged.
C14_StepOnBlockIncreaseWhileValuesRemain ==
    \A i \in SoftCallbacks :
        LET e == acqLog[i]
            k == IncreasesUpTo(e.num)
        IN /\ e.set <=> (BlockIncreases(e.num) /\ k < Len(ctl.sweep_vals))
           /\ e.set => /\ e.swept = ctl.sweep_vals[k + 1]
                       /\ SweptBefore(i) = ctl.sweep_vals[k]
           /\ ~e.set => e.swept = SweptBefore(i)

\* a soft sweep that stepped on one callback, stayed on another, and ran out
\* of sweep values on a third
C14_Witness ==
    /\ ctl.kind = "Soft"
    /\ \E i, j, l \in DOMAIN acqLog :
          /\ acqLog[i].set
          /\ ~acqLog[j].set /\ ~BlockIncreases(acqLog[j].num)
          /\ ~acqLog[l].set /\ BlockIncreases(acqLog[l].num)

\* the buffers of the current acquisition that were added into block k
BuffersInBlock(k) ==
    {i \in DOMAIN acqLog : /\ acqLog[i].run = ctl.run
                           /\ acqLog[i].add
                           /\ acqLog[i].lo = k * BufferLen}

\* a soft sweep with averaging whose acquisition has been completed
SoftSweepAcquired ==
    ctl.kind = "Soft" /\ ctl.average_buffers /\ ctl.phase = "acquired"

Min(a, b) == IF a <= b THEN a ELSE b

BufferHandled == Len(acqLog') = Len(acqLog) + 1

\* the elements of block (or slot) k of the data array
BlockRange(k) == (k * BufferLen + 1)..((k + 1) * BufferLen)

\* C17: with average_buffers on and buffers_per_block = b, handle_buffer
\* adds the samples of buffer n into block n // b of the data array (in the
\* integer type of the array) and into no other block, and every index it
\* writes lies below data_size; with average_buffers off and a buffer number
\* given, the samples of buffer n are stored in slot n and no other slot is
\* changed.
C17_BufferGoesToItsBlock ==
    [][(BufferHandled /\ ctl.numbered) =>
        LET n == ctl.completed
            buf == acqLog'[Len(acqLog')].buf
            b == ctl.buffers_per_block
        IN /\ (ctl.average_buffers /\ b # None) =>
                /\ \A i \in BlockRange(n \div b) :
                      /\ i <= ctl.data_size
                      /\ i \in DOMAIN data'.arr
                      /\ data'.arr[i] = Wrap(ctl, data.arr[i]
                                   + buf[i - (n \div b) * BufferLen])
                /\ \A i \in DOMAIN data.arr \ BlockRange(n \div b) :
                      data'.arr[i] = data.arr[i]
                /\ DOMAIN data'.arr = DOMAIN data.arr
           /\ ~ctl.average_buffers =>
                /\ \A i \in BlockRange(n) :
                      /\ i \in DOMAIN data'.arr
                      /\ data'.arr[i] = buf[i - n * BufferLen]
                /\ \A i \in DOMAIN data.arr \ BlockRange(n) :
                      data'.arr[i] = data.arr[i]
                /\ DOMAIN data'.arr = DOMAIN data.arr
    ]_vars

\* an averaging controller with two buffers per block has handled buffer 2,
\* the first buffer of block 1
C17_Witness ==
    /\ ctl.average_buffers /\ ctl.numbered /\ ctl.buffers_per_block = 2
    /\ ctl.phase = "capturing" /\ ctl.completed = 3
    /\ acqLog[Len(acqLog)].lo = BufferLen /\ acqLog[Len(acqLog)].add
    /\ \E i \in BlockRange(1) : data.arr[i] # 0

\* the first buffer of an acquisition is about to be handled
FirstBufferDue == ctl.phase = "capturing" /\ ctl.completed = 0

\* C18: with average_buffers on, the accumulation region data[:data_size]
\* is all zeros when the first buffer of every acquisition is handled,
\* including a second acquisition started without calling
\* setup_acquisition again.
C18_AccumulatorClearedPerAcquisition ==
    (FirstBufferDue /\ ctl.average_buffers) =>
        \A i \in 1..ctl.data_size : data.arr[i] = 0

\* C20: setup_acquisition on a controller whose data is None allocates a
\* data array of at least data_size elements and returns normally.
C20_SetupAllocatesMissingData ==
    ctl.data_size # None =>
        /\ acqRet.kind # "TypeError"
        /\ ~data.none
        /\ Len(data.arr) >= ctl.data_size

\* the converted voltage of one raw sample, ((raw / 2^nbits) - 0.5) * 2 in
\* units of the range, times 2^(nbits-1)
SampleVolts(raw) == (raw \div 16) - Pow2(NBits - 1)

RECURSIVE SumVolts(_, _)
\* the sum of the converted voltages of channel ch over the buffers S
SumVolts(S, ch) ==
    IF S = {} THEN 0
    ELSE LET i == CHOOSE j \in S : TRUE
             rest == SumVolts(S \ {i}, ch)
         IN SampleVolts(acqLog[i].buf[ch]) + rest

\* C19: with average_buffers on and buffers_per_block = b, each block of
\* the data returned by post_acquire equals the arithmetic mean, over the
\* buffers accumulated into that block, of the per-buffer converted voltage
\* ((raw / 2^nbits) - 0.5) * 2 * range, for every buffers_per_acquisition.
C19_BlockIsMeanOfVoltages ==
    (acqRet.kind = "data" /\ ctl.average_buffers /\ ctl.buffers_per_block # None) =>
        \A k \in 0..(ctl.nblocks - 1), ch \in 1..NumberOfChannels :
            LET S == BuffersInBlock(k)
                v == acqRet.val[k * BufferLen + ch]
            IN S # {} =>
                 v.num * Pow2(NBits - 1) * Cardinality(S)
                    = v.den * SumVolts(S, ch)

\* ---------------------------------------------------------------------
\* ConversionParameter (parameters.py)

MaxConv == 2        \* values set are in -MaxConv..MaxConv
ConvValues == (0 - MaxConv)..MaxConv

\* the conversion functions handed to the constructor; "none" is
\* set_conv=None
GetConvs == {"identity", "double", "negate", "plus1"}
SetConvs == {"none", "double", "negate", "minus1"}

ApplyConv(f, x) ==
    CASE f = "identity" -> x
      [] f = "double" -> x * 2
      [] f = "negate" -> 0 - x
      [] f = "plus1" -> x + 1
      [] f = "minus1" -> x - 1

NoLastSet == [valid |-> FALSE, v |-> 0]
ConvReturned(kind, val, lastset) == [kind |-> kind, val |-> val, lastset |-> lastset]

\* a set_raw that hands the value to the source unconverted
SetRawMutant(c, value) == value

\* set_raw: self.src_param(self.set_conv(value))
SetRaw(c, value) == ApplyConv(c.set_conv, value)

\* get_raw: self.get_conv(self.src_param())
GetRaw(c, s) == ApplyConv(c.get_conv, s)

\* ConversionParameter(name, src_param, get_conv, set_conv, initial_value):
\* an initial value is set through set(); without set_conv that raises and
\* no parameter is constructed
InitConv ==
    /\ \E gc \in GetConvs, sc \in SetConvs, given \in BOOLEAN, initial \in ConvValues :
          /\ given => sc # "none"
          /\ ~given => initial = 0
          /\ conv = [get_conv |-> gc, set_conv |-> sc]
          /\ src = IF given THEN SetRaw(conv, initial) ELSE None
          /\ convRet = ConvReturned("init", 0,
                          IF given THEN [valid |-> TRUE, v |-> initial]
                          ELSE NoLastSet)
    /\ bag = <<>> /\ op = NoOp /\ ret = NoRet
    /\ RunIdle /\ SweepIdle /\ AcqIdle /\ RestIdle

\* c.set(value)
ConvSet ==
    \E value \in ConvValues :
        IF conv.set_conv = "none"
        THEN /\ convRet' = ConvReturned("NotImplementedError", 0, convRet.lastset)
             /\ UNCHANGED <<src, conv>>
        ELSE /\ src' = SetRaw(conv, value)
             /\ convRet' = ConvReturned("set", value, [valid |-> TRUE, v |-> value])
             /\ UNCHANGED conv

\* c.get()
ConvGet ==
    /\ convRet' = ConvReturned("get", GetRaw(conv, src), convRet.lastset)
    /\ UNCHANGED <<src, conv>>

\* the source parameter is set directly
SrcSet ==
    \E value \in ConvValues :
        /\ src' = value
        /\ convRet' = ConvReturned("src", value, NoLastSet)
        /\ UNCHANGED conv

NextConv ==
    \/ ConvSet /\ UNCHANGED <<bagVars, runVars, sweepVars, acqVars, restVars>>
    \/ ConvGet /\ UNCHANGED <<bagVars, runVars, sweepVars, acqVars, restVars>>
    \/ SrcSet /\ UNCHANGED <<bagVars, runVars, sweepVars, acqVars, restVars>>

SpecConv == InitConv /\ [][NextConv]_vars

\* C16: setting a ConversionParameter to v sets the source parameter to
\* set_conv(v); getting it returns get_conv of the value of the source
\* parameter and never writes the source; so after set(v) the source holds
\* set_conv(v) and the parameter reads get_conv(set_conv(v)).
C16_SetAndGetConvert ==
    [][/\ convRet'.kind = "set" =>
            src' = ApplyConv(conv.set_conv, convRet'.val)
       /\ convRet'.kind = "get" =>
            /\ src' = src
            /\ convRet'.val = ApplyConv(conv.get_conv, src)
            /\ convRet'.lastset.valid =>
                 /\ src' = ApplyConv(conv.set_conv, convRet'.lastset.v)
                 /\ convRet'.val = ApplyConv(conv.get_conv,
                        ApplyConv(conv.set_conv, convRet'.lastset.v))
    ]_vars

\* c.set(2) with set_conv doubling, then c.get() with get_conv adding one:
\* the source holds 4 and the parameter reads 5
C16_Witness ==
    /\ conv.set_conv = "double" /\ conv.get_conv = "plus1"
    /\ convRet.kind = "get" /\ convRet.lastset = [valid |-> TRUE, v |-> 2]
    /\ src = 4 /\ convRet.val = 5

\* an acquisition of len(sweep_vals) x buffers_per_block buffers, with at
\* least three buffers per block, is running or has been completed
TriggeredSweepRunning ==
    /\ ctl.kind = "Soft" /\ ctl.phase \in {"capturing", "acquired"}
    /\ ctl.buffers_per_block >= 3
    /\ ctl.buffers_per_acquisition = Len(ctl.sweep_vals) * ctl.buffers_per_block

\* C21: over one acquisition of len(sweep_vals) x buffers_per_block buffers
\* with buffers_per_block >= 3, SoftSweepCtl sets the swept parameter to
\* sweep_vals[0], sweep_vals[1], ..., sweep_vals[-1] in that order, each
\* exactly once, and never indexes sweep_vals out of range; a following
\* acquisition starts again from sweep_vals[0].
C21_SweepValuesInOrderOnce ==
    TriggeredSweepRunning =>
        /\ ctl.sets # <<>>
        /\ Len(ctl.sets) <= Len(ctl.sweep_vals)
        /\ ctl.sets = SubSeq(ctl.sweep_vals, 1, Len(ctl.sets))
        /\ ctl.step + 1 >= Len(ctl.sets)
        /\ ctl.swept = ctl.sets[Len(ctl.sets)]
        /\ ctl.phase = "acquired" => ctl.sets = ctl.sweep_vals

\* the second acquisition of a soft sweep over two values has been completed
C21_Witness ==
    /\ TriggeredSweepRunning /\ ctl.phase = "acquired" /\ ctl.run = 2
    /\ Len(ctl.sweep_vals) = 2 /\ ctl.sets = ctl.sweep_vals
    /\ Len(acqLog) = 2 * ctl.buffers_per_acquisition

\* C28: setup_triggered_softsweep raises ValueError whenever
\* integration_time // time_bin < 3, before programming the AWG and before
\* changing any setting of the controller.
C28_ShortIntegrationRejectedFirst ==
    [][\A npts \in 1..MaxPoints, integration_time \in IntegrationTimes,
          time_bin \in TimeBins, setup_awg \in BOOLEAN :
          (/\ ctl.kind = "Soft" /\ ctl.phase = "constructed"
           /\ integration_time \div time_bin < 3
           /\ SetupTriggered(npts, integration_time, time_bin, setup_awg))
          => /\ acqRet'.kind = "ValueError"
             /\ awg' = awg
             /\ ctl' = ctl
             /\ data' = data
    ]_vars

\* a setup with too short an integration time was refused on a controller
\* that was configured differently
C28_Witness ==
    /\ acqRet.kind = "ValueError" /\ ctl.phase = "constructed"
    /\ ctl.kind = "Soft" /\ ~ctl.average_buffers /\ awg = <<>>

\* C23: when every set function returns the bag it was given, run() returns
\* with the bag holding exactly the sections it held when run() was called
\* (each section pushed for a sweep value is popped once the inner sweeps
\* for that value have finished), and at every save_data call the bag depth
\* equals the initial depth plus the number of sweeps.
C23_BagRestoredAfterRun ==
    /\ rpc = "done" => bag = initBag
    /\ rpc = "running" =>
          /\ Len(bag) = Len(initBag) + Len(frames) - 1
          /\ SubSeq(bag, 1, Len(initBag)) = initBag
    /\ \A j \in 1..Len(SaveEvents) :
          Len(SaveEvents[j].bag) = Len(initBag) + Len(sweeps)

\* run() over three non-empty sweeps has returned and left the bag with the
\* one section it started with
C23_Witness ==
    /\ rpc = "done" /\ Len(sweeps) = 3 /\ Len(initBag) = 1 /\ bag = initBag
    /\ \A k \in 1..3 : Len(sweeps[k].values) >= 1
    /\ Len(sweeps[1].values) = 2
    /\ Len(SaveEvents) >= 2

\* the calls of nested for loops over S_k, .., S_n around the measurement:
\* each value of S_k is set once, then the inner loops run in that state
RECURSIVE NestedCalls(_, _, _)
NestedCalls(o, k, env) ==
    IF k = Len(o.objs)
    THEN <<Call("get", o.objs[k].name, Reading(env))>>
    ELSE Flat([j \in 1..Len(o.objs[k].values) |->
            <<Call("set", o.objs[k].name, o.objs[k].values[j])>>
            \o NestedCalls(o, k + 1,
                   [env EXCEPT ![o.objs[k].name] = o.objs[k].values[j]])])

\* the calls made so far that set the parameter called name
SetCallsOf(name) == SelectSeq(calls, LAMBDA c : c.f = "set" /\ c.name = name)

\* C22: while iterating Nest(S1, .., Sn, M) the set function of Si is
\* called exactly once for each combination of values of S1..Si (not again
\* for every result of the inner sweeps), and at every point M is measured
\* only after the set functions of all enclosing sweeps have been called
\* with that point's values.
C22_SetOncePerCombination ==
    IsSweepsThenMeasure(Top) =>
        /\ IsPrefix(calls, NestedCalls(Top, 1, NoParams))
        /\ phase = "done" =>
              /\ calls = NestedCalls(Top, 1, NoParams)
              /\ \A i \in 1..(Len(Top.objs) - 1) :
                    Len(SetCallsOf(Top.objs[i].name))
                        = Len(Product([k \in 1..i |-> Top.objs[k].values]))
        /\ (calls # <<>> /\ calls[Len(calls)].f = "get") =>
              calls[Len(calls)].val = Reading(params)

\* a two-dimensional nest of two values each has been iterated to the end:
\* the outer parameter was set twice, the inner one four times
C22_Witness ==
    /\ phase = "done" /\ IsSweepsThenMeasure(Top) /\ Len(Top.objs) = 3
    /\ Len(SetCallsOf(Top.objs[1].name)) = 2
    /\ Len(SetCallsOf(Top.objs[2].name)) = 4
    /\ Len(calls) = 10

\* the place of the parameter called name in the registration order
RegisteredAt(name) == CHOOSE a \in 1..Len(regs) : regs[a].name = name

\* C24: register_sweep registers standalone parameters first: every
\* parameter that has no setpoints comes before every parameter that has
\* setpoints, so no parameter is registered before a parameter it names as
\* a setpoint.
C24_StandaloneRegisteredFirst ==
    phase = "registered" =>
        /\ \A a, b \in 1..Len(regs) :
              (regs[a].setpoints = <<>> /\ regs[b].setpoints # <<>>) => a < b
        /\ \A b \in 1..Len(regs) : \A k \in 1..Len(regs[b].setpoints) :
              /\ Registered(regs[b].setpoints[k])
              /\ RegisteredAt(regs[b].setpoints[k]) < b

\* a registered sweep object whose parameter table lists a parameter with
\* setpoints before a standalone one: the registration order differs from
\* the order of the table
C24_Witness ==
    /\ phase = "registered" /\ Len(regs) >= 3
    /\ \E a, b \in 1..Len(regs) :
          /\ a < b
          /\ regs[a].setpoints = <<>> /\ regs[b].setpoints # <<>>
          /\ \E i, j \in 1..Len(Top.table.param_specs) :
                /\ i < j
                /\ Top.table.param_specs[i] = regs[b].name
                /\ Top.table.param_specs[j] = regs[a].name

----------------------------------------------------------------------------
(* mdac/Continuity_checker.py: setup_mdac2, measure_continuity2 and        *)
(* mdac_cleanup2 as continuity_checker calls them.  Every instrument       *)
(* command is one step.  The functions have no data-dependent branch       *)
(* besides the choice of the SMU channel, so each is the sequence of       *)
(* commands it issues for a channel map of n lines; probe_connection is    *)
(* False (the remapping of the returned dictionary touches no instrument). *)

MaxLines == 3
MaxReads == 2

\* the keys of the channel map, line i being pin (i-1) \div 4 + 1 of
\* breakout box (i-1) % 4 + 1; fridge_BoB_to_mdac gives each key a channel
\* of its own
KeyOf(i) == [box |-> ((i - 1) % 4) + 1, pin |-> ((i - 1) \div 4) + 1]

Relay == {"open", "close"}

Cmd(fn, line, dev, cmd, arg, num) ==
    [fn |-> fn, line |-> line, dev |-> dev, cmd |-> cmd, arg |-> arg,
     num |-> num]

SetupMdac2Mutant(n) ==
    Flat([i \in 1..n |->
        << Cmd("setup_mdac2", i, "ch", "voltage", "", 0),
           Cmd("setup_mdac2", i, "ch", "dac_output", "open", 0),
           Cmd("setup_mdac2", i, "ch", "gnd", "close", 0),
           Cmd("setup_mdac2", i, "ch", "microd", "close", 0) >>])
    \o << Cmd("setup_mdac2", 0, "mdac1", "bus", "close", 0),
          Cmd("setup_mdac2", 0, "mdac2", "bus", "close", 0) >>

setup_mdac2(n) ==
    Flat([i \in 1..n |->
        << Cmd("setup_mdac2", i, "ch", "voltage", "", 0),
           Cmd("setup_mdac2", i, "ch", "dac_output", "open", 0) >>])
    \o Flat([i \in 1..n |->
        << Cmd("setup_mdac2", i, "ch", "gnd", "close", 0),
           Cmd("setup_mdac2", i, "ch", "microd", "close", 0) >>])
    \o << Cmd("setup_mdac2", 0, "mdac1", "bus", "close", 0),
          Cmd("setup_mdac2", 0, "mdac2", "bus", "close", 0) >>

\* the SMU channel that reads a line: smua for the keys starting with
\* '1' or '2', smub for the others
SmuOf(i) == IF KeyOf(i).box \in {1, 2} THEN "smua" ELSE "smub"

MeasureContinuity2Mutant(n, Navg) ==
    Flat([i \in 1..n |->
        << Cmd("measure_continuity2", i, "ch", "bus", "close", 0),
           Cmd("measure_continuity2", i, "ch", "gnd", "open", 0) >>
        \o [k \in 1..Navg |->
                Cmd("measure_continuity2", i, SmuOf(i), "res", "", Navg)]
        \o << Cmd("measure_continuity2", i, "ch", "bus", "open", 0) >>])

measure_continuity2(n, Navg) ==
    Flat([i \in 1..n |->
        << Cmd("measure_continuity2", i, "ch", "bus", "close", 0),
           Cmd("measure_continuity2", i, "ch", "gnd", "open", 0) >>
        \o [k \in 1..Navg |->
                Cmd("measure_continuity2", i, SmuOf(i), "res", "", Navg)]
        \o << Cmd("measure_continuity2", i, "ch", "gnd", "close", 0),
              Cmd("measure_continuity2", i, "ch", "bus", "open", 0) >>])

mdac_cleanup2(n) ==
    Flat([i \in 1..n |->
        << Cmd("mdac_cleanup2", i, "ch", "microd", "open", 0),
           Cmd("mdac_cleanup2", i, "ch", "gnd", "open", 0),
           Cmd("mdac_cleanup2", i, "ch", "filter", "", 1) >>])

continuity_checker(n, Navg) ==
    setup_mdac2(n) \o measure_continuity2(n, Navg) \o mdac_cleanup2(n)

\* what the SMU reads on a line: the resistance to ground of the line whose
\* ground relay is open and whose bus relay is closed
Resistance(m, i) == 10 * i + Cardinality({l \in DOMAIN m.ch :
                                 m.ch[l].gnd = "open" /\ l # i})

\* the instruments before the check: any position of the ground and bus
\* relays of every line, the DAC outputs connected and at a voltage
OldIdle ==
    /\ bag = <<>> /\ op = NoOp /\ ret = NoRet
    /\ RunIdle /\ SweepIdle /\ AcqIdle /\ ConvIdle

InitMdac ==
    /\ OldIdle /\ MeasIdle /\ OptIdle
    /\ \E n \in 1..MaxLines, Navg \in 1..MaxReads :
         /\ mprog = continuity_checker(n, Navg)
         /\ \E g \in [1..n -> Relay], b \in [1..n -> Relay] :
              mdac = [ch |-> [i \in 1..n |->
                                [voltage |-> 1, dac_output |-> "close",
                                 gnd |-> g[i], microd |-> "open",
                                 bus |-> b[i], filter |-> 0]],
                      mdac1 |-> "open", mdac2 |-> "open"]
    /\ mpc = 0
    /\ rdict = <<>>

\* the effect of one command on the instruments
Exec(m, c) ==
    IF c.dev = "ch"
    THEN CASE c.cmd = "voltage" -> [m EXCEPT !.ch[c.line].voltage = c.num]
           [] c.cmd = "filter" -> [m EXCEPT !.ch[c.line].filter = c.num]
           [] c.cmd = "dac_output" ->
                [m EXCEPT !.ch[c.line].dac_output = c.arg]
           [] c.cmd = "gnd" -> [m EXCEPT !.ch[c.line].gnd = c.arg]
           [] c.cmd = "microd" -> [m EXCEPT !.ch[c.line].microd = c.arg]
           [] c.cmd = "bus" -> [m EXCEPT !.ch[c.line].bus = c.arg]
    ELSE IF c.dev = "mdac1" THEN [m EXCEPT !.mdac1 = c.arg]
    ELSE IF c.dev = "mdac2" THEN [m EXCEPT !.mdac2 = c.arg]
    ELSE m

\* r += SMU.res() ... r = r/Navg ; R[key] = r : the entry of a line holds
\* the sum of its readings so far and the number Navg it is divided by
Accumulate(R, m, c) ==
    IF c.cmd # "res" THEN R
    ELSE LET old == IF \E k \in DOMAIN R : R[k].line = c.line
                    THEN R[Len(R)].sum ELSE 0
             entry == [line |-> c.line, sum |-> old + Resistance(m, c.line),
                       Navg |-> c.num]
         IN IF \E k \in DOMAIN R : R[k].line = c.line
            THEN [R EXCEPT ![Len(R)] = entry]
            ELSE Append(R, entry)

MdacCommand ==
    /\ mpc < Len(mprog)
    /\ mpc' = mpc + 1
    /\ mdac' = Exec(mdac, mprog[mpc + 1])
    /\ rdict' = Accumulate(rdict, mdac, mprog[mpc + 1])
    /\ UNCHANGED mprog

NextMdac == MdacCommand /\ UNCHANGED <<oldVars, measVars, optVars>>

SpecMdac == InitMdac /\ [][NextMdac]_vars

\* the command executed last, and the commands executed so far
LastCmd == mprog[mpc]
Executed == SubSeq(mprog, 1, mpc)
MeasureLoopFinished ==
    /\ mpc > 0
    /\ LastCmd.fn = "measure_continuity2"
    /\ (mpc = Len(mprog) \/ mprog[mpc + 1].fn # "measure_continuity2")

\* C25: during measure_continuity2, run after setup_mdac2, whenever a
\* resistance reading is taken on a line, the measured line is the only line
\* of the channel map whose ground relay is open (all others are grounded),
\* and once the loop has finished every line has its ground relay closed and
\* its bus relay open.
C25_OnlyMeasuredLineUngrounded ==
    /\ (mpc > 0 /\ LastCmd.cmd = "res") =>
          \A l \in DOMAIN mdac.ch :
              (mdac.ch[l].gnd = "open") <=> (l = LastCmd.line)
    /\ MeasureLoopFinished =>
          \A l \in DOMAIN mdac.ch :
              mdac.ch[l].gnd = "close" /\ mdac.ch[l].bus = "open"

C25_Witness ==
    /\ mpc > 0 /\ LastCmd.cmd = "res" /\ LastCmd.line = 2
    /\ Len(mdac.ch) = 3
    /\ mdac.ch[2].gnd = "open" /\ mdac.ch[3].gnd = "close"
    /\ Len(rdict) = 2

\* C26: setup_mdac2 switches no ground or microD relay of any channel before
\* the voltage of every channel of the map has been set to 0.
C26_VoltagesZeroBeforeRelays ==
    \A j \in 1..mpc :
        (mprog[j].fn = "setup_mdac2" /\ mprog[j].cmd \in {"gnd", "microd"}) =>
            \A l \in DOMAIN mdac.ch :
                \E i \in 1..(j - 1) :
                    /\ mprog[i].cmd = "voltage" /\ mprog[i].line = l
                    /\ mprog[i].num = 0

C26_Witness ==
    /\ mpc > 0 /\ LastCmd.fn = "setup_mdac2" /\ LastCmd.cmd = "microd"
    /\ LastCmd.line = 2 /\ Len(mdac.ch) = 3
    /\ \A l \in DOMAIN mdac.ch : mdac.ch[l].voltage = 0

----------------------------------------------------------------------------
(* experiment/measurement.py (and its copies under stationq/ and           *)
(* pyStationQ/): BaseMeasurement._get_next_data_idx and BaseMeasurement.run *)
(* File names are sequences of one-character strings; the names in a        *)
(* folder hold digits, letters, '-', '#', '_' and '.' only, so int() is     *)
(* given no sign and no white space.                                        *)

DATAIDXPAD == 4
MaxFiles == 2

Digits == <<"0", "1", "2", "3", "4", "5", "6", "7", "8", "9">>
IsDigit(c) == \E d \in 1..10 : Digits[d] = c
DigitVal(c) == (CHOOSE d \in 1..10 : Digits[d] = c) - 1

RECURSIVE IntVal(_)
IntVal(s) ==
    IF s = <<>> THEN 0
    ELSE 10 * IntVal(SubSeq(s, 1, Len(s) - 1)) + DigitVal(s[Len(s)])

\* int(s): ValueError unless s is a non-empty run of digits
ParseInt(s) ==
    IF s # <<>> /\ \A i \in DOMAIN s : IsDigit(s[i])
    THEN [ok |-> TRUE, v |-> IntVal(s)]
    ELSE [ok |-> FALSE, v |-> 0]

\* str(n) for n >= 0
RECURSIVE Str(_)
Str(n) ==
    IF n < 10 THEN <<Digits[n + 1]>>
    ELSE Str(n \div 10) \o <<Digits[(n % 10) + 1]>>

\* s.zfill(width)
Zfill(s, width) ==
    IF Len(s) >= width THEN s
    ELSE [i \in 1..(width - Len(s)) |-> "0"] \o s

\* the position of the first occurrence of sep in s, 0 if there is none
Find(s, sep) ==
    LET at == {i \in 1..(Len(s) - Len(sep) + 1) :
                   SubSeq(s, i, i + Len(sep) - 1) = sep}
    IN IF at = {} THEN 0 ELSE CHOOSE i \in at : \A j \in at : i <= j

\* s.split(sep)[0]
Split0(s, sep) ==
    IF Find(s, sep) = 0 THEN s ELSE SubSeq(s, 1, Find(s, sep) - 1)

\* s.split(sep)[1]: IndexError if sep does not occur in s
Split1(s, sep) ==
    IF Find(s, sep) = 0 THEN [ok |-> FALSE, v |-> <<>>]
    ELSE [ok |-> TRUE,
          v |-> Split0(SubSeq(s, Find(s, sep) + Len(sep), Len(s)), sep)]

\* os.path.splitext(f)[0]: f up to its last dot, leading dots aside
Splitext(f) ==
    LET dots == {i \in 2..Len(f) :
                    f[i] = "." /\ \E j \in 1..(i - 1) : f[j] # "."}
    IN IF dots = {} THEN f
       ELSE SubSeq(f, 1, (CHOOSE i \in dots : \A j \in dots : j <= i) - 1)

\* int(f.split(prefix+"-#")[1].split("_")[0]) inside try/except
IdxOf(f, prefix) ==
    LET a == Split1(Splitext(f), prefix \o <<"-", "#">>)
    IN IF a.ok THEN ParseInt(Split0(a.v, <<"_">>)) ELSE [ok |-> FALSE, v |-> 0]

NextDataIdxMutant(fld, prefix) ==
    LET idxs == {IdxOf(f, prefix).v :
                    f \in {g \in fld.names : IdxOf(g, prefix).ok}}
    IN IF ~fld.exists \/ idxs = {}
       THEN <<"-", "#">> \o Zfill(<<"0">>, DATAIDXPAD)
       ELSE <<"-", "#">> \o
            Zfill(Str(CHOOSE m \in idxs : \A k \in idxs : k <= m),
                  DATAIDXPAD)

_get_next_data_idx(fld, prefix) ==
    LET idxs == {IdxOf(f, prefix).v :
                    f \in {g \in fld.names : IdxOf(g, prefix).ok}}
    IN IF ~fld.exists \/ idxs = {}
       THEN <<"-", "#">> \o Zfill(<<"0">>, DATAIDXPAD)
       ELSE <<"-", "#">> \o
            Zfill(Str((CHOOSE m \in idxs : \A k \in idxs : k <= m) + 1),
                  DATAIDXPAD)

\* the datafile prefix of the measurement, and names a data folder may hold:
\* data files written with and without an info string, metadata files, a
\* name with an unparsable index, and files of other measurements
Prefix == <<"p">>
Named(idx, tail) == Prefix \o <<"-", "#">> \o idx \o tail
FileNames ==
    { Named(<<"0", "0", "0", "3">>, <<"_", "a", ".", "h">>),
      Named(<<"0", "0", "0", "7">>, <<".", "h">>),
      Named(<<"0", "0", "1", "2">>, <<"_", "s", ".", "j">>),
      Named(<<"0", "0", "0", "x">>, <<"_", "a", ".", "h">>),
      Named(<<"9", "9", "9", "9">>, <<"_", "a", ".", "h">>),
      <<"q", "-", "#", "0", "0", "2", "0", "_", "a", ".", "h">>,
      <<"a", ".", "h">> }

Hooks == [setup : {"ok", "raise"},
          measure : {"NotImplementedError", "ok", "raise"},
          cleanup : {"ok", "raise"}]

InitMeas ==
    /\ OldIdle /\ MdacIdle /\ OptIdle
    /\ \E exists \in BOOLEAN, names \in SUBSET FileNames :
         /\ Cardinality(names) <= MaxFiles
         /\ ~exists => names = {}
         /\ folder = [exists |-> exists, names |-> names]
    /\ \E hooks \in Hooks, info \in BOOLEAN :
         meas = [pc |-> "pre_measurement_tasks", hooks |-> hooks,
                 info_string |-> info, called |-> <<>>, idx |-> <<>>,
                 exc |-> "", listing |-> folder]

\* one hook of run(): it returns and run() goes on to the next hook, or it
\* raises and the exception leaves run()
Hook(name, outcome, next) ==
    /\ meas.pc = name
    /\ meas' = [meas EXCEPT !.called = Append(@, name),
                            !.pc = IF outcome = "ok" THEN next ELSE "raised",
                            !.exc = IF outcome = "ok" THEN "" ELSE outcome]

\* pre_measurement_tasks -> init_data -> _get_data_location(makedirs=True)
PreMeasurementTasks ==
    /\ meas.pc = "pre_measurement_tasks"
    /\ meas' = [meas EXCEPT !.called = Append(@, "pre_measurement_tasks"),
                            !.pc = "setup",
                            !.listing = folder,
                            !.idx = _get_next_data_idx(folder, Prefix)]
    /\ folder' = [folder EXCEPT !.exists = TRUE]

Setup == Hook("setup", meas.hooks.setup, "measure") /\ UNCHANGED folder

Measure == Hook("measure", meas.hooks.measure, "cleanup") /\ UNCHANGED folder

Cleanup == Hook("cleanup", meas.hooks.cleanup, "postprocess") /\ UNCHANGED folder

Postprocess ==
    Hook("postprocess", "ok", "post_measurement_tasks") /\ UNCHANGED folder

\* post_measurement_tasks -> save_metadata, with cfg.metadata_subdir == "":
\* <prefix><idx>[_<info_string>]_station.json is written to the data folder
PostMeasurementTasks ==
    /\ Hook("post_measurement_tasks", "ok", "done")
    /\ folder' = [folder EXCEPT !.names = @ \cup
                    {Prefix \o meas.idx
                        \o (IF meas.info_string THEN <<"_", "i">> ELSE <<>>)
                        \o <<"_", "s", ".", "j">>}]

NextMeas ==
    \/ PreMeasurementTasks /\ UNCHANGED <<oldVars, mdacVars, optVars>>
    \/ Setup /\ UNCHANGED <<oldVars, mdacVars, optVars>>
    \/ Measure /\ UNCHANGED <<oldVars, mdacVars, optVars>>
    \/ Cleanup /\ UNCHANGED <<oldVars, mdacVars, optVars>>
    \/ Postprocess /\ UNCHANGED <<oldVars, mdacVars, optVars>>
    \/ PostMeasurementTasks /\ UNCHANGED <<oldVars, mdacVars, optVars>>

SpecMeas == InitMeas /\ [][NextMeas]_vars

Called(name) == \E i \in DOMAIN meas.called : meas.called[i] = name
RunOver == meas.pc \in {"done", "raised"}

\* C27: in every execution of BaseMeasurement.run in which setup() was
\* executed, cleanup() is executed afterwards, also when measure() raises
\* (as the default measure() does with NotImplementedError).
C27_CleanupAfterSetup ==
    (RunOver /\ Called("setup")) =>
        \E i, j \in DOMAIN meas.called :
            /\ i < j
            /\ meas.called[i] = "setup"
            /\ meas.called[j] = "cleanup"

\* the index the call has returned, and the folder it listed
IdxReturned == meas.pc # "pre_measurement_tasks"
Listed == meas.listing.names
IndexDigits == SubSeq(meas.idx, 3, Len(meas.idx))

\* a name of the form <prefix>-#<index>_... , and the index it carries
AfterPrefix(f) == SubSeq(f, Len(Prefix) + 3, Len(f))
IndexRun(t) ==
    SubSeq(t, 1, CHOOSE n \in 0..Len(t) :
                    /\ \A i \in 1..n : IsDigit(t[i])
                    /\ (n < Len(t) => ~IsDigit(t[n + 1])))
StartsIndexed(f) ==
    /\ Len(f) >= Len(Prefix) + 3
    /\ SubSeq(f, 1, Len(Prefix) + 2) = Prefix \o <<"-", "#">>
    /\ IndexRun(AfterPrefix(f)) # <<>>
TailOf(f) ==
    SubSeq(AfterPrefix(f), Len(IndexRun(AfterPrefix(f))) + 1,
           Len(AfterPrefix(f)))
FormWithUnderscore(f) ==
    StartsIndexed(f) /\ TailOf(f) # <<>> /\ TailOf(f)[1] = "_"
\* ... or of the form <prefix>-#<index> with at most an extension after it
FormWithoutUnderscore(f) ==
    /\ StartsIndexed(f)
    /\ \/ TailOf(f) = <<>>
       \/ /\ TailOf(f)[1] = "."
          /\ \A i \in 2..Len(TailOf(f)) : TailOf(f)[i] # "."
IndexIn(f) == IntVal(IndexRun(AfterPrefix(f)))
Largest(S) == CHOOSE m \in S : \A k \in S : k <= m

----------------------------------------------------------------------------
(* field_optimization/movement.py:                                         *)
(* FieldOptimizationProblem.optimize_at_fixed_magnitude.  Field vectors    *)
(* are integer Cartesian triples; the grid angles are multiples of 90      *)
(* degrees (phi_range = (0, 90 (n_phi - 1)), theta likewise), for which    *)
(* the spherical-to-Cartesian conversion is exact.  A move is one call of  *)
(* set_field_async; its five intermediate steps are not separate states.   *)

MaxGrid == 2

Magnitudes == {2}

\* cos and sin of k * 90 degrees
Cos90(k) == <<1, 0, -1, 0>>[(k % 4) + 1]
Sin90(k) == Cos90(k + 3)

\* FieldVector(r=r, phi=phi, theta=theta) as (x, y, z)
Cartesian(r, point) ==
    << r * Sin90(point.theta) * Cos90(point.phi),
       r * Sin90(point.theta) * Sin90(point.phi),
       r * Cos90(point.theta) >>

\* np.linspace over both ranges, phi in the outer loop
Grid(n_phi, n_theta) ==
    Flat([i \in 1..n_phi |->
            [j \in 1..n_theta |-> [phi |-> i - 1, theta |-> j - 1]]])

\* FieldVector.distance, squared
Distance2(a, b) ==
    (a[1] - b[1]) * (a[1] - b[1]) + (a[2] - b[2]) * (a[2] - b[2])
        + (a[3] - b[3]) * (a[3] - b[3])

NearestMutant(r, current, still_to_visit) == Len(still_to_visit)

\* min(still_to_visit, key=current.distance): the position of the first
\* point of the list at the least distance
Nearest(r, current, still_to_visit) ==
    CHOOSE k \in DOMAIN still_to_visit :
        /\ \A l \in DOMAIN still_to_visit :
              Distance2(current, Cartesian(r, still_to_visit[k]))
                 <= Distance2(current, Cartesian(r, still_to_visit[l]))
        /\ \A l \in 1..(k - 1) :
              Distance2(current, Cartesian(r, still_to_visit[l]))
                 > Distance2(current, Cartesian(r, still_to_visit[k]))

\* still_to_visit.remove(nearest)
RemoveAt(seq, k) == SubSeq(seq, 1, k - 1) \o SubSeq(seq, k + 1, Len(seq))

\* the field the instrument measures after a move to a target: the target,
\* or a field next to it
Reached(target) == {target, <<target[1] + 1, target[2], target[3]>>}

\* self.objective() at a measured field
Objective(field) == field[3] - field[1]

InitOpt ==
    /\ OldIdle /\ MdacIdle /\ MeasIdle
    /\ \E r \in Magnitudes, n_phi \in 0..MaxGrid, n_theta \in 0..MaxGrid,
          field \in {<<0, 0, 0>>, <<0, 2, 0>>} :
         opt = [pc |-> "visiting", r |-> r, n_phi |-> n_phi,
                n_theta |-> n_theta,
                still_to_visit |-> Grid(n_phi, n_theta),
                field |-> field, current |-> <<>>, targets |-> <<>>,
                locations |-> <<>>, ret |-> "none"]

\* one pass of the while loop
VisitNearest ==
    /\ opt.pc = "visiting" /\ opt.still_to_visit # <<>>
    /\ LET k == Nearest(opt.r, opt.field, opt.still_to_visit)
           nearest == opt.still_to_visit[k]
       IN \E measured \in Reached(Cartesian(opt.r, nearest)) :
            opt' = [opt EXCEPT !.still_to_visit = RemoveAt(@, k),
                               !.current = Append(@, opt.field),
                               !.targets = Append(@, nearest),
                               !.field = measured,
                               !.locations = Append(@, measured)]

\* after the loop: np.argmax of the objectives (ValueError if there are
\* none), and the move to the optimum
MoveToOptimum ==
    /\ opt.pc = "visiting" /\ opt.still_to_visit = <<>>
    /\ IF opt.locations = <<>>
       THEN opt' = [opt EXCEPT !.pc = "raised", !.ret = "ValueError"]
       ELSE LET best == CHOOSE k \in DOMAIN opt.locations :
                          /\ \A l \in DOMAIN opt.locations :
                                Objective(opt.locations[l])
                                   <= Objective(opt.locations[k])
                          /\ \A l \in 1..(k - 1) :
                                Objective(opt.locations[l])
                                   < Objective(opt.locations[k])
            IN \E measured \in Reached(opt.locations[best]) :
                 opt' = [opt EXCEPT !.pc = "returned", !.ret = "optimum",
                                    !.field = measured]

NextOpt ==
    \/ VisitNearest /\ UNCHANGED <<oldVars, mdacVars, measVars>>
    \/ MoveToOptimum /\ UNCHANGED <<oldVars, mdacVars, measVars>>

SpecOpt == InitOpt /\ [][NextOpt]_vars

\* every move the instrument is asked for completes, so the coroutine goes
\* on to its next statement
SpecOptFair == SpecOpt /\ WF_vars(NextOpt)

GridSize == opt.n_phi * opt.n_theta
LoopOver == opt.pc # "visiting" \/ opt.still_to_visit = <<>>

\* C29, safety part: each grid point is a move target at most once, and
\* exactly once when the loop is over; every target was, when chosen, a
\* not-yet-visited grid point nearest to the field measured then; the loop
\* is over after exactly n_phi x n_theta moves.
C29_VisitsEachPointNearestFirst ==
    LET grid == Grid(opt.n_phi, opt.n_theta)
        targets == opt.targets
    IN /\ \A i, j \in DOMAIN targets : targets[i] = targets[j] => i = j
       /\ \A i \in DOMAIN targets : \E g \in DOMAIN grid : grid[g] = targets[i]
       /\ Len(targets) + Len(opt.still_to_visit) = GridSize
       /\ LoopOver <=> Len(targets) = GridSize
       /\ \A i \in DOMAIN targets :
            \A g \in DOMAIN grid :
               (\A j \in 1..(i - 1) : targets[j] # grid[g]) =>
                   Distance2(opt.current[i], Cartesian(opt.r, targets[i]))
                      <= Distance2(opt.current[i], Cartesian(opt.r, grid[g]))

\* C29: optimize_at_fixed_magnitude's visiting loop terminates, having used
\* each of the n_phi x n_theta grid points as a move target exactly once,
\* always the not-yet-visited point nearest to the measured field.
C29_ExhaustiveSearchTerminates ==
    /\ []C29_VisitsEachPointNearestFirst
    /\ <>(LoopOver /\ Len(opt.targets) = GridSize)

C29_Witness ==
    /\ opt.pc = "returned" /\ opt.n_phi = 2 /\ opt.n_theta = 2
    /\ Len(opt.targets) = 4
    /\ opt.targets[1] # Grid(2, 2)[1]

====
